---- MODULE Spec2Model ----
(***************************************************************************)
(* Cargo-insurance quoting: the tariff service (assess / quote /           *)
(* post_quote), the classifier adapter of the dialog service               *)
(* (llm_classify_cargo_with_trace) and the dialog state machine (chat).    *)
(*                                                                         *)
(* Representation notes.                                                   *)
(*  - Python None is None == <<>>, a present value v is Some(v) == <<v>>.  *)
(*  - A Decimal d is the integer d * DecScale (exact fixed point).         *)
(*  - A text is a sequence of pieces.  A piece is a digit, a space, a      *)
(*    punctuation mark or a run of letters that no test of the program     *)
(*    splits; Cyrillic pieces are transliterated and carry the prefix      *)
(*    "ru:" (TLA+ strings are ASCII).  str.lower()/str.upper() act piece   *)
(*    by piece and the Python substring test "m in s" is the               *)
(*    contiguous-subsequence test on pieces.                               *)
(***************************************************************************)
EXTENDS Integers, Sequences, FiniteSets, TLC

VARIABLES
    cfg,        \* tariff service: app.state.tariff_config
    req,        \* tariff service: the QuoteRequest being handled (None when idle)
    resp,       \* tariff service: outcome of the last post_quote
    calls,      \* tariff service: the calls post_quote made for that request
    llm_in,     \* classifier adapter: arguments and capability behaviour of one invocation
    llm_out,    \* classifier adapter: what the invocation did and returned (None before)
    client,     \* dialog service: _client is set (YANDEX_FOLDER_ID and YANDEX_API_KEY given)
    tariff_url, \* dialog service: TARIFF_URL is set
    sessions,   \* dialog service: _SESSIONS
    now,        \* dialog service: _now()
    last,       \* dialog service: what the handler of the last chat turn did
    inflight    \* dialog service: the chat requests the thread pool is handling

vars == <<cfg, req, resp, calls, llm_in, llm_out, client, tariff_url, sessions, now, last,
          inflight>>

None == <<>>
Some(v) == <<v>>

(***************************************************************************)
(* Strings                                                                 *)
(***************************************************************************)
\* str.upper() on the pieces the model uses
Upper(w) ==
    CASE w = "new" -> "NEW"
      [] w = "used" -> "USED"
      [] w = "cargo003" -> "CARGO003"
      [] w = "Cargo016" -> "CARGO016"
      [] w = "ru:rf" -> "ru:RF"
      [] w = "ru:Da" -> "ru:DA"
      [] w = "ru:da" -> "ru:DA"
      [] OTHER -> w

\* str.lower() on the pieces the model uses
Lower(w) ==
    CASE w = "True" -> "true"
      [] w = "False" -> "false"
      [] w = "Failed" -> "failed"
      [] w = "Attempt" -> "attempt"
      [] w = "Not" -> "not"
      [] w = "LLM" -> "llm"
      [] w = "TypeError" -> "typeerror"
      [] w = "AttributeError" -> "attributeerror"
      [] w = "JSONDecodeError" -> "jsondecodeerror"
      [] w = "APIConnectionError" -> "apiconnectionerror"
      [] w = "NEW" -> "new"
      [] w = "USED" -> "used"
      [] w = "CARGO003" -> "cargo003"
      [] w = "Cargo016" -> "cargo016"
      [] w = "ru:DA" -> "ru:da"
      [] w = "ru:Da" -> "ru:da"
      [] w = "ru:Oform" -> "ru:oform"
      [] w = "ru:RF" -> "ru:rf"
      [] w = "ru:SNG" -> "ru:sng"
      [] w = "ru:VES'" -> "ru:ves'"
      [] w = "ru:MIR" -> "ru:mir"
      [] w = "ru:Mln" -> "ru:mln"
      [] OTHER -> w

\* str(bool)
StrBool(b) == IF b THEN "True" ELSE "False"

\* str(int) for the franchise amounts the model uses
StrInt(n) ==
    CASE n = 0 -> "0"
      [] n = 20000 -> "20000"
      [] n = 30000 -> "30000"
      [] n = 50000 -> "50000"
      [] OTHER -> "?"

(***************************************************************************)
(* Tariff service                                                          *)
(***************************************************************************)
\* Decimal fixed point: rates are tenths, the three coefficients are halves,
\* so every product sum * rate * k * k * k is a whole number of 1/DecScale.
DecScale == 10 * 2 * 2 * 2

\* Decimal(str(x)) of an integer amount of roubles
_d(x) == x * DecScale

MaxSum == 6


\* values a rate table is built from (rates in tenths, coefficients in halves)
BaseRatesOptions ==
    { [c \in {"CARGO003"} |-> [k \in {"NEW", "USED"} |-> IF k = "NEW" THEN 1 ELSE 3]],
      [c \in {"CARGO003", "CARGO001"} |-> [k \in {"NEW"} |-> IF c = "CARGO003" THEN 2 ELSE 5]],
      [c \in {"CARGO001"} |-> [k \in {"new", "USED"} |-> 4]] }

KFranchiseOptions ==
    { [k \in {"20000", "50000"} |-> IF k = "20000" THEN 2 ELSE 1],
      [k \in {"50000"} |-> 2] }

KReeferOptions ==
    { [k \in {"true", "false"} |-> IF k = "true" THEN 3 ELSE 2],
      [k \in {"false"} |-> 2] }

KRouteOptions ==
    { [k \in {"RF", "SNG-RF", "VES MIR-RF"} |-> IF k = "RF" THEN 2 ELSE 3],
      [k \in {"SNG-RF"} |-> 1] }

\* auto_limit_rub: 5 roubles
AutoLimitOptions == { _d(5) }

\* min_premium_rub: 0, 2 and 3 roubles
MinPremiumOptions == { 0, _d(2), _d(3) }

RoundingModes == {"HALF_UP", "CEIL", "DOWN"}

RoundingSteps == {1, 2}

\* TariffConfig as load_config builds it (rounding_step_rub > 0 is enforced there)
TariffConfig ==
    [ auto_limit_rub : AutoLimitOptions,
      min_premium_rub : MinPremiumOptions,
      base_rates : BaseRatesOptions,
      k_franchise : KFranchiseOptions,
      k_reefer : KReeferOptions,
      k_route : KRouteOptions,
      rounding_mode : RoundingModes,
      rounding_step_rub : RoundingSteps ]

\* QuoteRequest: the facts pydantic lets through to post_quote
QuoteRequest ==
    [ cargo_class_id : {"CARGO003", "CARGO999"},
      sum_insured_rub : 1..MaxSum,
      condition : {"NEW", "USED"},
      franchise_rub : {20000, 30000},
      is_reefer : BOOLEAN,
      route_zone : {"RF", "MARS"} ]

\* assess(cfg, facts): <<decision, reasons>>
assessFranchiseFirst(c, f) ==
    IF f.cargo_class_id \notin DOMAIN c.base_rates
    THEN <<"DECLINE", <<"CARGO_NOT_ELIGIBLE">>>>
    ELSE IF Upper(f.condition) \notin DOMAIN c.base_rates[f.cargo_class_id]
    THEN <<"REFER", <<"CONDITION_NOT_SUPPORTED">>>>
    ELSE IF StrInt(f.franchise_rub) \notin DOMAIN c.k_franchise
    THEN <<"REFER", <<"FRANCHISE_NOT_SUPPORTED">>>>
    ELSE IF _d(f.sum_insured_rub) > c.auto_limit_rub
    THEN <<"REFER", <<"LIMIT_EXCEEDED">>>>
    ELSE IF f.route_zone \notin DOMAIN c.k_route
    THEN <<"REFER", <<"ROUTE_ZONE_NOT_SUPPORTED">>>>
    ELSE IF Lower(StrBool(f.is_reefer)) \notin DOMAIN c.k_reefer
    THEN <<"REFER", <<"REEFER_FLAG_NOT_SUPPORTED">>>>
    ELSE <<"AUTO_OK", <<>>>>

assessNoReeferCheck(c, f) ==
    IF f.cargo_class_id \notin DOMAIN c.base_rates
    THEN <<"DECLINE", <<"CARGO_NOT_ELIGIBLE">>>>
    ELSE IF Upper(f.condition) \notin DOMAIN c.base_rates[f.cargo_class_id]
    THEN <<"REFER", <<"CONDITION_NOT_SUPPORTED">>>>
    ELSE IF _d(f.sum_insured_rub) > c.auto_limit_rub
    THEN <<"REFER", <<"LIMIT_EXCEEDED">>>>
    ELSE IF StrInt(f.franchise_rub) \notin DOMAIN c.k_franchise
    THEN <<"REFER", <<"FRANCHISE_NOT_SUPPORTED">>>>
    ELSE IF f.route_zone \notin DOMAIN c.k_route
    THEN <<"REFER", <<"ROUTE_ZONE_NOT_SUPPORTED">>>>
    ELSE <<"AUTO_OK", <<>>>>

assess(c, f) ==
    IF f.cargo_class_id \notin DOMAIN c.base_rates
    THEN <<"DECLINE", <<"CARGO_NOT_ELIGIBLE">>>>
    ELSE IF Upper(f.condition) \notin DOMAIN c.base_rates[f.cargo_class_id]
    THEN <<"REFER", <<"CONDITION_NOT_SUPPORTED">>>>
    ELSE IF _d(f.sum_insured_rub) > c.auto_limit_rub
    THEN <<"REFER", <<"LIMIT_EXCEEDED">>>>
    ELSE IF StrInt(f.franchise_rub) \notin DOMAIN c.k_franchise
    THEN <<"REFER", <<"FRANCHISE_NOT_SUPPORTED">>>>
    ELSE IF f.route_zone \notin DOMAIN c.k_route
    THEN <<"REFER", <<"ROUTE_ZONE_NOT_SUPPORTED">>>>
    ELSE IF Lower(StrBool(f.is_reefer)) \notin DOMAIN c.k_reefer
    THEN <<"REFER", <<"REEFER_FLAG_NOT_SUPPORTED">>>>
    ELSE <<"AUTO_OK", <<>>>>

\* Decimal.to_integral_value(rounding=ROUND_CEILING) of num/den
ToIntegralCeiling(num, den) == -((-num) \div den)

\* Decimal.to_integral_value(rounding=ROUND_HALF_UP) of num/den: ties away from zero
ToIntegralHalfUp(num, den) ==
    IF num >= 0 THEN (2 * num + den) \div (2 * den)
    ELSE -((2 * (-num) + den) \div (2 * den))

\* _round_money(amount, step_rub, mode); amount and result are Decimals
_round_moneyCeilPastBoundary(amount, step_rub, mode) ==
    IF step_rub = 1
    THEN IF mode = "CEIL"
         THEN _d((amount \div DecScale) + 1)
         ELSE _d(ToIntegralHalfUp(amount, DecScale))
    ELSE IF mode = "CEIL"
         THEN _d(((amount \div (DecScale * step_rub)) + 1) * step_rub)
         ELSE _d(ToIntegralHalfUp(amount, DecScale * step_rub) * step_rub)

_round_money(amount, step_rub, mode) ==
    IF step_rub = 1
    THEN IF mode = "CEIL"
         THEN _d(ToIntegralCeiling(amount, DecScale))
         ELSE _d(ToIntegralHalfUp(amount, DecScale))
    ELSE IF mode = "CEIL"
         THEN _d(ToIntegralCeiling(amount, DecScale * step_rub) * step_rub)
         ELSE _d(ToIntegralHalfUp(amount, DecScale * step_rub) * step_rub)

\* the rounded premium quote computes before the minimum is applied
\* (defined only when all four lookups hit)
PremiumRounded(c, f) ==
    LET base_rate == c.base_rates[f.cargo_class_id][Upper(f.condition)]
        k_fr == c.k_franchise[StrInt(f.franchise_rub)]
        k_ref == c.k_reefer[Lower(StrBool(f.is_reefer))]
        k_route == c.k_route[f.route_zone]
        premium_raw == f.sum_insured_rub * base_rate * k_fr * k_ref * k_route
    IN _round_money(premium_raw, c.rounding_step_rub, c.rounding_mode)

\* the four dict lookups of quote all hit
QuoteKeysExist(c, f) ==
    /\ f.cargo_class_id \in DOMAIN c.base_rates
    /\ Upper(f.condition) \in DOMAIN c.base_rates[f.cargo_class_id]
    /\ StrInt(f.franchise_rub) \in DOMAIN c.k_franchise
    /\ Lower(StrBool(f.is_reefer)) \in DOMAIN c.k_reefer
    /\ f.route_zone \in DOMAIN c.k_route

\* quote(cfg, facts): KeyError, or (premium_final, min_applied)
quoteClampLE(c, f) ==
    IF ~QuoteKeysExist(c, f)
    THEN [key_error |-> TRUE, premium |-> 0, min_applied |-> FALSE]
    ELSE LET premium_rounded == PremiumRounded(c, f)
         IN IF premium_rounded <= c.min_premium_rub
            THEN [key_error |-> FALSE, premium |-> c.min_premium_rub, min_applied |-> TRUE]
            ELSE [key_error |-> FALSE, premium |-> premium_rounded, min_applied |-> FALSE]

quote(c, f) ==
    IF ~QuoteKeysExist(c, f)
    THEN [key_error |-> TRUE, premium |-> 0, min_applied |-> FALSE]
    ELSE LET premium_rounded == PremiumRounded(c, f)
         IN IF premium_rounded < c.min_premium_rub
            THEN [key_error |-> FALSE, premium |-> c.min_premium_rub, min_applied |-> TRUE]
            ELSE [key_error |-> FALSE, premium |-> premium_rounded, min_applied |-> FALSE]

\* POST /quote arrives: pydantic has validated the body
ReceiveQuote ==
    /\ req = None
    /\ resp = None
    /\ \E r \in QuoteRequest : req' = Some(r)
    /\ UNCHANGED <<cfg, resp, calls, llm_in, llm_out, client, tariff_url, sessions, now, last, inflight>>

\* the response post_quote builds from the decision a = assess(...), and the
\* calls it has made by then
PostQuoteResponseAlways(c, f, a) ==
    LET q == quote(c, f)
    IN [ response |-> IF q.key_error
                      THEN [ http |-> 400, decision |-> a[1], premium_rub |-> None,
                             min_premium_applied |-> None, reasons |-> a[2] ]
                      ELSE [ http |-> 200, decision |-> a[1], premium_rub |-> Some(q.premium),
                             min_premium_applied |-> Some(q.min_applied), reasons |-> a[2] ],
         calls |-> <<"assess", "quote">> ]

PostQuoteResponse(c, f, a) ==
    IF a[1] = "DECLINE" \/ a[1] = "REFER"
    THEN [ response |-> [ http |-> 200, decision |-> a[1], premium_rub |-> None,
                          min_premium_applied |-> None, reasons |-> a[2] ],
           calls |-> <<"assess">> ]
    ELSE LET q == quote(c, f)
         IN [ response |-> IF q.key_error
                           THEN [ http |-> 400, decision |-> a[1], premium_rub |-> None,
                                  min_premium_applied |-> None, reasons |-> a[2] ]
                           ELSE [ http |-> 200, decision |-> a[1], premium_rub |-> Some(q.premium),
                                  min_premium_applied |-> Some(q.min_applied), reasons |-> a[2] ],
              calls |-> <<"assess", "quote">> ]

\* post_quote(req)
post_quote ==
    /\ req # None
    /\ LET r == PostQuoteResponse(cfg, req[1], assess(cfg, req[1]))
       IN /\ resp' = Some([facts |-> req[1]] @@ r.response)
          /\ calls' = r.calls
    /\ req' = None
    /\ UNCHANGED <<cfg, llm_in, llm_out, client, tariff_url, sessions, now, last, inflight>>


\* the response (or the HTTP error) has been sent; the service is idle again
SendQuoteResponse ==
    /\ resp # None
    /\ resp' = None
    /\ calls' = <<>>
    /\ UNCHANGED <<cfg, req, llm_in, llm_out, client, tariff_url, sessions, now, last, inflight>>

\* the tariff service: the table is loaded once, then requests are served
InitTariff ==
    /\ cfg \in TariffConfig
    /\ req = None
    /\ resp = None
    /\ calls = <<>>
    /\ llm_in = None
    /\ llm_out = None
    /\ client = FALSE
    /\ tariff_url = FALSE
    /\ sessions = <<>>
    /\ now = 0
    /\ last = None
    /\ inflight = None

NextTariff == ReceiveQuote \/ post_quote \/ SendQuoteResponse

SpecTariff == InitTariff /\ [][NextTariff]_vars


(***************************************************************************)
(* Dialog service: classifier adapter                                      *)
(***************************************************************************)
LLM_ATTEMPTS_PER_TRY == 3

\* LLM_BASE_DELAY_SEC = 0.6, in tenths of a second
LLM_BASE_DELAY_SEC == 6

MaxAttempts == 3

CARGO_ORDER ==
    << "CARGO001", "CARGO002", "CARGO003", "CARGO004", "CARGO005", "CARGO006",
       "CARGO007", "CARGO008", "CARGO009", "CARGO010", "CARGO011", "CARGO012",
       "CARGO013", "CARGO014", "CARGO015", "CARGO016" >>

\* the whitelist: id -> name (the name is abbreviated to one word)
CARGO_CLASSES ==
    [ id \in {CARGO_ORDER[i] : i \in 1..Len(CARGO_ORDER)} |->
        CASE id = "CARGO001" -> "vehicles"
          [] id = "CARGO003" -> "electronics"
          [] id = "CARGO011" -> "food"
          [] OTHER -> "other goods" ]

\* a value json.loads can produce: t is its type, s the words of a string,
\* n a number or the length of a list or object
JStr(words) == [t |-> "str", s |-> words, n |-> 0]
JNull == [t |-> "null", s |-> <<>>, n |-> 0]
JNum(k) == [t |-> "num", s |-> <<>>, n |-> k]
JList(k) == [t |-> "list", s |-> <<>>, n |-> k]
JObj(k) == [t |-> "obj", s |-> <<>>, n |-> k]

\* bool(v)
Truthy(v) ==
    CASE v.t = "str" -> v.s # <<>>
      [] v.t = "null" -> FALSE
      [] OTHER -> v.n # 0

\* hash(v) works: "v in CARGO_CLASSES" raises TypeError for a list or a dict
Hashable(v) == v.t \notin {"list", "obj"}

\* v in CARGO_CLASSES, for a hashable v
InCargoClasses(v) == v.t = "str" /\ Len(v.s) = 1 /\ v.s[1] \in DOMAIN CARGO_CLASSES

\* s.lower()
LowerText(words) == [i \in 1..Len(words) |-> Lower(words[i])]

\* the substring test "marker in text" on words
Contains(text, marker) ==
    \E i \in 0..(Len(text) - Len(marker)) :
        \A j \in 1..Len(marker) : text[i + j] = marker[j]

\* what the external capability does on one attempt
\*   transport: chat.completions.create raises
\*   not_json:  the content is not JSON
\*   not_object: the content is JSON but not an object
\*   object:    a JSON object; cid is its cargo_class_id (JNull when absent),
\*              reason its reason (JStr(<<>>) when absent)
Transport == [kind |-> "transport", cid |-> JNull, reason |-> JNull]
NotJson == [kind |-> "not_json", cid |-> JNull, reason |-> JNull]
NotObject == [kind |-> "not_object", cid |-> JNull, reason |-> JNull]
Answer(cid, reason) == [kind |-> "object", cid |-> cid, reason |-> reason]

LLMResponses ==
    { Transport, NotJson, NotObject,
      Answer(JStr(<<"CARGO003">>), JStr(<<"electronics">>)),
      Answer(JStr(<<"CARGO999">>), JStr(<<"match", "Failed">>)),
      Answer(JNull, JStr(<<"not", "sure">>)),
      Answer(JNull, JStr(<<>>)),
      Answer(JNull, JNum(5)),
      Answer(JNum(3), JNull),
      Answer(JList(1), JStr(<<"electronics">>)) }

\* the name of the exception one attempt raises inside the try block
\* ("" when it raises none)
AttemptError(r) ==
    CASE r.kind = "transport" -> "APIConnectionError"
      [] r.kind = "not_json" -> "JSONDecodeError"
      [] r.kind = "not_object" -> "AttributeError"
      [] ~Hashable(r.cid) -> "TypeError"
      [] OTHER -> ""

\* the body of the try block of one attempt: status, the local cid and the
\* two reasons after it
AttemptBody(r, attempt, st) ==
    LET err_name == AttemptError(r)
    IN IF err_name # ""
       THEN [ status |-> "error",
              cid |-> IF r.kind = "object" THEN r.cid ELSE JNull,
              err_name |-> err_name,
              last_reason |-> JStr(<<"LLM", "attempt", ToString(attempt), "failed", ":", err_name>>),
              last_uncertain_reason |-> st.last_uncertain_reason ]
       ELSE IF InCargoClasses(r.cid)
       THEN [ status |-> "ok", cid |-> r.cid, err_name |-> "",
              last_reason |-> r.reason,
              last_uncertain_reason |-> st.last_uncertain_reason ]
       ELSE LET lur == IF Truthy(r.reason) THEN r.reason ELSE JStr(<<"not", "in", "whitelist">>)
            IN [ status |-> "uncertain", cid |-> r.cid, err_name |-> "",
                 last_reason |-> lur,
                 last_uncertain_reason |-> lur ]

\* what an invocation returns or raises, with what it did on the way
LLMReturn(cid, status, reason, st) ==
    [ raised |-> "", cid |-> cid, status |-> status, reason |-> reason,
      events |-> st.events, llm_calls |-> st.llm_calls ]

LLMRaise(exc, st) ==
    [ raised |-> exc, cid |-> None, status |-> "", reason |-> JNull,
      events |-> st.events, llm_calls |-> st.llm_calls ]

\* the final decision after the loop
LLMFinal(st) ==
    IF st.last_reason.t # "str"
    THEN LLMRaise("AttributeError", st)
    ELSE LET low == LowerText(st.last_reason.s)
         IN IF \/ Contains(low, <<"failed">>)
               \/ Contains(low, <<"not", "configured">>)
               \/ Contains(low, <<"attempt">>)
            THEN LLMReturn(None, "error", st.last_reason, st)
            ELSE LLMReturn(None, "uncertain",
                           IF Truthy(st.last_uncertain_reason)
                           THEN st.last_uncertain_reason ELSE st.last_reason, st)

\* the attempt loop: attempts attempt .. max_attempts, then the final decision
RECURSIVE LLMLoopSleepAlways(_, _, _, _, _, _)
LLMLoopSleepAlways(attempt, st, resps, debug_enabled, max_attempts, base_delay_sec) ==
    IF attempt > max_attempts THEN LLMFinal(st)
    ELSE LET a == AttemptBody(resps[attempt], attempt, st)
             called == Append(st.events, <<"call", attempt>>)
             st1 == [ last_reason |-> a.last_reason,
                      last_uncertain_reason |-> a.last_uncertain_reason,
                      events |-> called,
                      llm_calls |-> IF debug_enabled
                                    THEN Append(st.llm_calls, a.status) ELSE st.llm_calls ]
         IN IF debug_enabled /\ ~Hashable(a.cid)
            THEN LLMRaise("TypeError", [st EXCEPT !.events = called])
            ELSE IF a.status = "ok" /\ InCargoClasses(a.cid)
            THEN LLMReturn(Some(a.cid.s[1]), "ok", a.last_reason, st1)
            ELSE LLMLoopSleepAlways(attempt + 1,
                     [st1 EXCEPT !.events = Append(called, <<"sleep", base_delay_sec * attempt>>)],
                     resps, debug_enabled, max_attempts, base_delay_sec)

RECURSIVE LLMLoopOkNotFinal(_, _, _, _, _, _)
LLMLoopOkNotFinal(attempt, st, resps, debug_enabled, max_attempts, base_delay_sec) ==
    IF attempt > max_attempts THEN LLMFinal(st)
    ELSE LET a == AttemptBody(resps[attempt], attempt, st)
             called == Append(st.events, <<"call", attempt>>)
             st1 == [ last_reason |-> a.last_reason,
                      last_uncertain_reason |-> a.last_uncertain_reason,
                      events |-> called,
                      llm_calls |-> IF debug_enabled
                                    THEN Append(st.llm_calls, a.status) ELSE st.llm_calls ]
         IN IF debug_enabled /\ ~Hashable(a.cid)
            THEN LLMRaise("TypeError", [st EXCEPT !.events = called])
            ELSE IF a.status = "ok" /\ InCargoClasses(a.cid) /\ attempt = max_attempts
            THEN LLMReturn(Some(a.cid.s[1]), "ok", a.last_reason, st1)
            ELSE LLMLoopOkNotFinal(attempt + 1,
                     IF attempt < max_attempts
                     THEN [st1 EXCEPT !.events = Append(called, <<"sleep", base_delay_sec * attempt>>)]
                     ELSE st1,
                     resps, debug_enabled, max_attempts, base_delay_sec)

RECURSIVE LLMLoop(_, _, _, _, _, _)
LLMLoop(attempt, st, resps, debug_enabled, max_attempts, base_delay_sec) ==
    IF attempt > max_attempts THEN LLMFinal(st)
    ELSE LET a == AttemptBody(resps[attempt], attempt, st)
             called == Append(st.events, <<"call", attempt>>)
             st1 == [ last_reason |-> a.last_reason,
                      last_uncertain_reason |-> a.last_uncertain_reason,
                      events |-> called,
                      llm_calls |-> IF debug_enabled
                                    THEN Append(st.llm_calls, a.status) ELSE st.llm_calls ]
         IN IF debug_enabled /\ ~Hashable(a.cid)
            THEN LLMRaise("TypeError", [st EXCEPT !.events = called])
            ELSE IF a.status = "ok" /\ InCargoClasses(a.cid)
            THEN LLMReturn(Some(a.cid.s[1]), "ok", a.last_reason, st1)
            ELSE LLMLoop(attempt + 1,
                     IF attempt < max_attempts
                     THEN [st1 EXCEPT !.events = Append(called, <<"sleep", base_delay_sec * attempt>>)]
                     ELSE st1,
                     resps, debug_enabled, max_attempts, base_delay_sec)

\* llm_classify_cargo_with_trace(desc, debug_enabled, debug_trace, max_attempts,
\* base_delay_sec) when the capability answers resps[1], resps[2], ...
llm_classify_cargo_with_trace(configured, resps, debug_enabled, max_attempts, base_delay_sec) ==
    IF ~configured
    THEN LLMReturn(None, "error", JStr(<<"LLM", "not", "configured">>),
                   [ events |-> <<>>,
                     llm_calls |-> IF debug_enabled THEN <<"error">> ELSE <<>> ])
    ELSE LLMLoop(1, [ last_reason |-> JStr(<<"unknown">>),
                      last_uncertain_reason |-> JStr(<<"uncertain">>),
                      events |-> <<>>, llm_calls |-> <<>> ],
                 resps, debug_enabled, max_attempts, base_delay_sec)

\* one invocation of the adapter
LLMInvocations ==
    UNION { [ configured : BOOLEAN, debug_enabled : BOOLEAN, max_attempts : {n},
              base_delay_sec : {LLM_BASE_DELAY_SEC, 10},
              resps : [1..n -> LLMResponses] ] : n \in 1..MaxAttempts }

Classify ==
    /\ llm_in # None
    /\ llm_out = None
    /\ llm_out' = Some(llm_classify_cargo_with_trace(llm_in[1].configured, llm_in[1].resps,
                           llm_in[1].debug_enabled, llm_in[1].max_attempts,
                           llm_in[1].base_delay_sec))
    /\ UNCHANGED <<cfg, req, resp, calls, llm_in, client, tariff_url, sessions, now, last, inflight>>

InitLLM ==
    /\ llm_in \in {Some(i) : i \in LLMInvocations}
    /\ llm_out = None
    /\ cfg = None
    /\ req = None
    /\ resp = None
    /\ calls = <<>>
    /\ client = FALSE
    /\ tariff_url = FALSE
    /\ sessions = <<>>
    /\ now = 0
    /\ last = None
    /\ inflight = None

NextLLM == Classify

SpecLLM == InitLLM /\ [][NextLLM]_vars

(***************************************************************************)
(* Dialog service: configuration and field extractors                      *)
(***************************************************************************)
\* SESSION_TTL_SEC (3600 by default), set to 1 second here
SESSION_TTL_SEC == 1

CARGO_RETRY_MAX == 2

FRANCHISE_OPTIONS == <<20000, 50000>>

ROUTE_OPTIONS == << <<"ru:RF">>, <<"ru:SNG", "-", "ru:RF">>, <<"ru:VES'", " ", "ru:MIR", "-", "ru:RF">> >>

CONDITION_OPTIONS == <<"NEW", "USED">>

Elems(seq) == {seq[i] : i \in 1..Len(seq)}

Digits == {"0", "1", "2", "3", "4", "5", "6", "7", "8", "9"}

\* int(c) of one digit
DigitValue(c) ==
    CASE c = "0" -> 0 [] c = "1" -> 1 [] c = "2" -> 2 [] c = "3" -> 3 [] c = "4" -> 4
      [] c = "5" -> 5 [] c = "6" -> 6 [] c = "7" -> 7 [] c = "8" -> 8 [] c = "9" -> 9

\* \s and \w of the regular expressions, on pieces
IsSpace(c) == c = " "
IsWordPiece(c) == c \notin {" ", ".", ",", "-", "/", ":", "?", "!"}

\* s.strip()
Strip(text) ==
    LET idx == {i \in 1..Len(text) : ~IsSpace(text[i])}
    IN IF idx = {} THEN <<>>
       ELSE SubSeq(text, CHOOSE i \in idx : \A j \in idx : i <= j,
                         CHOOSE i \in idx : \A j \in idx : j <= i)

\* s.upper()
UpperText(text) == [i \in 1..Len(text) |-> Upper(text[i])]

\* int(s) of a run of digits and spaces, the spaces removed
RECURSIVE IntOf(_)
IntOf(text) ==
    IF text = <<>> THEN 0
    ELSE LET c == text[Len(text)]
             rest == SubSeq(text, 1, Len(text) - 1)
         IN IF IsSpace(c) THEN IntOf(rest) ELSE 10 * IntOf(rest) + DigitValue(c)

\* 10 ** n
RECURSIVE Pow10(_)
Pow10(n) == IF n = 0 THEN 1 ELSE 10 * Pow10(n - 1)

\* the end of the longest run of pieces from i on that all lie in ok (i - 1 when none)
RunEnd(text, i, ok) ==
    LET ends == {j \in (i - 1)..Len(text) : \A k \in i..j : text[k] \in ok}
    IN CHOOSE j \in ends : \A k \in ends : k <= j

IsDigit(c) == c \in Digits
IsMillion(c) == c \in {"ru:mln", "ru:million", "million"}

\* a match of (\d+(?:\.\d+)?)\s*(mln|million) starting at i: None or the value
\* int(float(group 1) * 1000000); the float product is taken to be exact
MillionMatchAt(t, i) ==
    IF i > Len(t) \/ ~IsDigit(t[i]) THEN None
    ELSE LET e1 == RunEnd(t, i, Digits)
             hasFrac == e1 + 2 <= Len(t) /\ t[e1 + 1] = "." /\ IsDigit(t[e1 + 2])
             e2 == IF hasFrac THEN RunEnd(t, e1 + 2, Digits) ELSE e1
             e3 == RunEnd(t, e2 + 1, {" "})
             whole == IntOf(SubSeq(t, i, e1))
             frac == IF hasFrac THEN IntOf(SubSeq(t, e1 + 2, e2)) ELSE 0
             fracLen == e2 - e1 - 1
         IN IF e3 + 1 <= Len(t) /\ IsMillion(t[e3 + 1])
            THEN Some(whole * 1000000 + (frac * 1000000) \div Pow10(IF hasFrac THEN fracLen ELSE 0))
            ELSE None

\* a match of \b(\d[\d\s]{5,})\b starting at i: None or int(group 1 without spaces)
DigitRunMatchAt(text, i) ==
    IF i > Len(text) \/ ~IsDigit(text[i]) \/ (i > 1 /\ IsWordPiece(text[i - 1])) THEN None
    ELSE LET e == RunEnd(text, i + 1, Digits \cup {" "})
             ends == { j \in (i + 5)..e :
                         IF IsDigit(text[j])
                         THEN j = Len(text) \/ ~IsWordPiece(text[j + 1])
                         ELSE j < Len(text) /\ IsWordPiece(text[j + 1]) }
         IN IF ends = {} THEN None
            ELSE Some(IntOf(SubSeq(text, i, CHOOSE j \in ends : \A k \in ends : k <= j)))

\* re.search: the match at the leftmost position that has one
FirstMillionMatch(text) ==
    LET starts == {i \in 1..Len(text) : MillionMatchAt(text, i) # None}
    IN IF starts = {} THEN None
       ELSE MillionMatchAt(text, CHOOSE i \in starts : \A j \in starts : i <= j)

FirstDigitRunMatch(text) ==
    LET starts == {i \in 1..Len(text) : DigitRunMatchAt(text, i) # None}
    IN IF starts = {} THEN None
       ELSE DigitRunMatchAt(text, CHOOSE i \in starts : \A j \in starts : i <= j)

parse_sum_rub(text) ==
    LET t == [i \in 1..Len(text) |-> IF Lower(text[i]) = "," THEN "." ELSE Lower(text[i])]
        m == FirstMillionMatch(t)
    IN IF m # None THEN m ELSE FirstDigitRunMatch(text)

parse_condition(text) ==
    LET tl == Strip(LowerText(text))
    IN IF Contains(tl, <<"ru:b", "/", "ru:u">>) \/ Contains(tl, <<"ru:b", "ru:u">>)
          \/ Contains(tl, <<"ru:poderzh">>)
       THEN Some("USED")
       ELSE IF Contains(tl, <<"ru:nov">>) THEN Some("NEW")
       ELSE IF tl \in {<<"new">>, <<"used">>} THEN Some(Upper(tl[1]))
       ELSE None

parse_franchise(text) ==
    LET tl == Strip(LowerText(text))
        names == Contains(tl, <<"ru:fr", "ru:ansh">>) \/ Contains(tl, <<"ru:fr", "ru:ansh", "ru:iza">>)
                    \/ Contains(tl, <<"ru:fr">>)
    IN IF tl \in { <<"2", "0", "0", "0", "0">>, <<"2", "0">>, <<"2", "0", "ru:k">>,
                   <<"2", "0", " ", "ru:k">>, <<"2", "0", " ", "ru:tys">> }
       THEN Some(20000)
       ELSE IF tl \in { <<"5", "0", "0", "0", "0">>, <<"5", "0">>, <<"5", "0", "ru:k">>,
                        <<"5", "0", " ", "ru:k">>, <<"5", "0", " ", "ru:tys">> }
       THEN Some(50000)
       ELSE IF names /\ ( \/ Contains(tl, <<"2", "0">>) \/ Contains(tl, <<"2", "0", "0", "0", "0">>)
                          \/ Contains(tl, <<"2", "0", "ru:k">>)
                          \/ Contains(tl, <<"2", "0", " ", "ru:tys">>) )
       THEN Some(20000)
       ELSE IF names /\ ( \/ Contains(tl, <<"5", "0">>) \/ Contains(tl, <<"5", "0", "0", "0", "0">>)
                          \/ Contains(tl, <<"5", "0", "ru:k">>)
                          \/ Contains(tl, <<"5", "0", " ", "ru:tys">>) )
       THEN Some(50000)
       ELSE None

parse_yes_no(text) ==
    LET tl == LowerText(Strip(text))
    IN IF tl \in { <<"ru:da">>, <<"yes">>, <<"y">>, <<"ru:ok">>, <<"ru:aga">>, <<"ru:konechno">>,
                   <<"ru:verno">>, <<"ru:pravil'no">> }
       THEN Some(TRUE)
       ELSE IF tl \in { <<"ru:ne", "ru:t">>, <<"no">>, <<"n">>, <<"ru:ne", "ru:a">>,
                        <<"ru:ne", "ru:verno">> }
       THEN Some(FALSE)
       ELSE None

parse_reefer(text) ==
    LET tl == Strip(LowerText(text))
        yn == parse_yes_no(text)
    IN IF yn # None THEN yn
       ELSE IF Contains(tl, <<"ru:bez", " ", "ru:ref">>)
               \/ (Contains(tl, <<"ru:ne">>)
                     /\ (Contains(tl, <<"ru:ref">>) \/ Contains(tl, <<"ru:ref", "ru:rizh">>)))
       THEN Some(FALSE)
       ELSE IF Contains(tl, <<"ru:ref">>) \/ Contains(tl, <<"ru:ref", "ru:rizh">>)
               \/ Contains(tl, <<"ru:holod">>)
       THEN Some(TRUE)
       ELSE None

\* the canonical zone names, as the strings sent to the tariff service
ZoneName(text) ==
    CASE text = ROUTE_OPTIONS[1] -> "RF"
      [] text = ROUTE_OPTIONS[2] -> "SNG-RF"
      [] text = ROUTE_OPTIONS[3] -> "VES MIR-RF"

parse_route_zone(text) ==
    LET tl == Strip(LowerText(text))
    IN IF Contains(tl, <<"ru:sng">>) THEN Some(ZoneName(ROUTE_OPTIONS[2]))
       ELSE IF Contains(tl, <<"ru:ves'", " ", "ru:mir">>) THEN Some(ZoneName(ROUTE_OPTIONS[3]))
       ELSE IF tl \in {<<"rf">>, <<"russia">>, <<"ru:rossiya">>, <<"ru:rf">>}
       THEN Some(ZoneName(ROUTE_OPTIONS[1]))
       ELSE IF Strip(text) \in Elems(ROUTE_OPTIONS) THEN Some(ZoneName(Strip(text)))
       ELSE None

parse_manual_cargo_choiceZeroBased(text) ==
    LET tl == UpperText(Strip(text))
        st == Strip(text)
    IN IF Len(tl) = 1 /\ tl[1] \in DOMAIN CARGO_CLASSES THEN Some(tl[1])
       ELSE IF Len(st) \in {1, 2} /\ (\A i \in 1..Len(st) : IsDigit(st[i]))
               /\ 0 <= IntOf(st) /\ IntOf(st) < Len(CARGO_ORDER)
       THEN Some(CARGO_ORDER[IntOf(st) + 1])
       ELSE None

parse_manual_cargo_choice(text) ==
    LET tl == UpperText(Strip(text))
        st == Strip(text)
    IN IF Len(tl) = 1 /\ tl[1] \in DOMAIN CARGO_CLASSES THEN Some(tl[1])
       ELSE IF Len(st) \in {1, 2} /\ (\A i \in 1..Len(st) : IsDigit(st[i]))
               /\ 1 <= IntOf(st) /\ IntOf(st) <= Len(CARGO_ORDER)
       THEN Some(CARGO_ORDER[IntOf(st)])
       ELSE None

is_intent_consult(text) ==
    LET tl == LowerText(text)
    IN Contains(tl, <<"ru:konsul">>) \/ Contains(tl, <<"ru:vopros">>) \/ Contains(tl, <<"ru:uslov">>)

is_intent_buy(text) ==
    LET tl == LowerText(text)
    IN \/ Contains(tl, <<"ru:oform">>) \/ Contains(tl, <<"ru:strahov">>)
       \/ Contains(tl, <<"ru:polis">>) \/ Contains(tl, <<"ru:rassch">>) \/ Contains(tl, <<"ru:kup">>)

(***************************************************************************)
(* Dialog service: session store and state machine                         *)
(***************************************************************************)
MaxTime == 2

MaxRetryCount == 4

SessionIds == {"s1"}

\* the messages users send (see the representation notes for the pieces)
Messages ==
    { <<"ru:Oform", "ru:it'">>,
      <<"ru:konsul", "ru:'taciya">>,
      <<"5", " ", "0", "0", "0", " ", "0", "0", "0">>,
      <<"ru:televizory">>,
      <<"ru:da">>,
      <<"ru:ne", "ru:t">>,
      <<"NEW">>,
      <<"2", "0", "0", "0", "0">>,
      <<"ru:RF">>,
      <<"3">> }

\* what the classifier capability does during the turns of a conversation
DialogLLMResponses ==
    { Transport,
      Answer(JStr(<<"CARGO003">>), JStr(<<"electronics">>)),
      Answer(JNull, JStr(<<"not", "sure">>)),
      Answer(JList(1), JStr(<<"electronics">>)) }

\* what requests.post to the tariff engine does: it raises, or answers with a
\* status >= 400, or answers with a JSON body (decision None: no such key)
TariffAnswer(decision, premium_rub, reasons) ==
    [kind |-> "json", decision |-> decision, premium_rub |-> premium_rub, reasons |-> reasons]

TariffOutcomes ==
    { [kind |-> "unreachable", decision |-> None, premium_rub |-> None, reasons |-> <<>>],
      [kind |-> "status_error", decision |-> None, premium_rub |-> None, reasons |-> <<>>],
      TariffAnswer(Some("AUTO_OK"), Some(7500), <<>>),
      TariffAnswer(Some("REFER"), None, <<"LIMIT_EXCEEDED">>),
      TariffAnswer(Some("DECLINE"), None, <<"CARGO_NOT_ELIGIBLE">>),
      TariffAnswer(None, None, <<>>) }

_new_session(t) ==
    [ stage |-> "welcome",
      intent |-> None,
      data |-> [ sum_insured_rub |-> None, cargo_desc |-> None, cargo_class_id |-> None,
                 condition |-> None, franchise_rub |-> None, is_reefer |-> None,
                 route_zone |-> None ],
      pending |-> [ cargo_proposed |-> None, cargo_retry_count |-> 0 ],
      expires_at |-> t + SESSION_TTL_SEC ]

\* the session _get_session(session_id) returns at time t; it is also stored
SessionExpiredAtDeadline(store, sid, t) == store[sid] = None \/ store[sid][1].expires_at <= t

SessionExpired(store, sid, t) == store[sid] = None \/ store[sid][1].expires_at < t

_get_session(store, sid, t) ==
    LET s == IF SessionExpired(store, sid, t) THEN _new_session(t) ELSE store[sid][1]
    IN [s EXCEPT !.expires_at = t + SESSION_TTL_SEC]

quote_missing(data) ==
    SelectSeq(<<"sum_insured_rub", "cargo_class_id", "condition", "franchise_rub",
                "is_reefer", "route_zone">>,
              LAMBDA k : data[k] = None)

\* the result of a turn: the session as the handler leaves it, the HTTP status
\* (200, or the status of the exception that ended the turn), the reply, and
\* the classifier invocations and tariff calls the handler made
respond(s, reply) == [s |-> s, http |-> 200, reply |-> reply, llm |-> <<>>, tariff |-> <<>>]

\* the classifier invocation of a turn: the description passed and the result
LLMNote(desc, r) ==
    [ desc |-> desc, status |-> r.status, cid |-> r.cid, raised |-> r.raised ]

\* call_tariff_engine(payload): the HTTP status of the HTTPException it raises, or 200
TariffCallStatusIgnoreHttpError(url_set, t) ==
    IF ~url_set THEN 500
    ELSE IF t.kind = "unreachable" THEN 502
    ELSE 200

TariffCallStatus(url_set, t) ==
    IF ~url_set THEN 500
    ELSE IF t.kind = "unreachable" \/ t.kind = "status_error" THEN 502
    ELSE 200

TurnWelcome(s) == respond([s EXCEPT !.stage = "intent_select"], "WELCOME_TEXT")

TurnIntentSelect(s, text) ==
    IF is_intent_consult(text)
    THEN respond([s EXCEPT !.intent = Some("consult"), !.stage = "consult"], "ask question")
    ELSE IF is_intent_buy(text)
    THEN respond([s EXCEPT !.intent = Some("buy"), !.stage = "quote_sum"], "ask quote_sum")
    ELSE respond(s, "ask intent")

TurnConsult(s, text) ==
    IF is_intent_buy(text)
    THEN respond([s EXCEPT !.intent = Some("buy"), !.stage = "quote_sum"], "ask quote_sum")
    ELSE respond(s, "consult placeholder")

TurnCargoConfirmKeepDesc(s, text) ==
    LET yn == parse_yes_no(text)
    IN IF yn = Some(TRUE)
       THEN respond([s EXCEPT !.data.cargo_class_id = Some(s.pending.cargo_proposed[1].id),
                              !.pending.cargo_proposed = None,
                              !.stage = "quote_condition"], "ask quote_condition")
       ELSE IF yn = Some(FALSE)
       THEN respond([s EXCEPT !.pending.cargo_proposed = None,
                              !.data.cargo_class_id = None,
                              !.stage = "quote_cargo"], "ask cargo again")
       ELSE respond(s, "ask yes or no")

TurnCargoConfirmKeepProposal(s, text) ==
    LET yn == parse_yes_no(text)
    IN IF yn = Some(TRUE)
       THEN respond([s EXCEPT !.data.cargo_class_id = Some(s.pending.cargo_proposed[1].id),
                              !.stage = "quote_condition"], "ask quote_condition")
       ELSE IF yn = Some(FALSE)
       THEN respond([s EXCEPT !.pending.cargo_proposed = None,
                              !.data.cargo_class_id = None,
                              !.data.cargo_desc = None,
                              !.stage = "quote_cargo"], "ask cargo again")
       ELSE respond(s, "ask yes or no")

TurnCargoConfirm(s, text) ==
    LET yn == parse_yes_no(text)
    IN IF yn = Some(TRUE)
       THEN respond([s EXCEPT !.data.cargo_class_id = Some(s.pending.cargo_proposed[1].id),
                              !.pending.cargo_proposed = None,
                              !.stage = "quote_condition"], "ask quote_condition")
       ELSE IF yn = Some(FALSE)
       THEN respond([s EXCEPT !.pending.cargo_proposed = None,
                              !.data.cargo_class_id = None,
                              !.data.cargo_desc = None,
                              !.stage = "quote_cargo"], "ask cargo again")
       ELSE respond(s, "ask yes or no")

TurnCargoRetryOkToChoose(s, r) ==
    LET s1 == [s EXCEPT !.pending.cargo_retry_count = s.pending.cargo_retry_count + 1]
        desc == IF s.data.cargo_desc = None THEN <<>> ELSE s.data.cargo_desc[1]
        note == <<LLMNote(desc, r)>>
    IN IF r.raised # ""
       THEN [s |-> s1, http |-> 500, reply |-> "", llm |-> note, tariff |-> <<>>]
       ELSE IF r.status = "ok" /\ r.cid # None
               /\ s1.pending.cargo_retry_count <= CARGO_RETRY_MAX
       THEN [ respond([s1 EXCEPT !.pending.cargo_proposed =
                                     Some([id |-> r.cid[1], name |-> CARGO_CLASSES[r.cid[1]]]),
                                 !.stage = "cargo_confirm"], "propose class")
              EXCEPT !.llm = note ]
       ELSE IF r.status = "error" /\ s1.pending.cargo_retry_count <= CARGO_RETRY_MAX
       THEN [respond(s1, "wait and resend") EXCEPT !.llm = note]
       ELSE [respond([s1 EXCEPT !.stage = "cargo_choose"], "manual menu") EXCEPT !.llm = note]

TurnCargoRetryOffByOne(s, r) ==
    LET s1 == [s EXCEPT !.pending.cargo_retry_count = s.pending.cargo_retry_count + 1]
        desc == IF s.data.cargo_desc = None THEN <<>> ELSE s.data.cargo_desc[1]
        note == <<LLMNote(desc, r)>>
    IN IF r.raised # ""
       THEN [s |-> s1, http |-> 500, reply |-> "", llm |-> note, tariff |-> <<>>]
       ELSE IF r.status = "ok" /\ r.cid # None
       THEN [ respond([s1 EXCEPT !.pending.cargo_proposed =
                                     Some([id |-> r.cid[1], name |-> CARGO_CLASSES[r.cid[1]]]),
                                 !.stage = "cargo_confirm"], "propose class")
              EXCEPT !.llm = note ]
       ELSE IF r.status = "error" /\ s1.pending.cargo_retry_count <= CARGO_RETRY_MAX + 1
       THEN [respond(s1, "wait and resend") EXCEPT !.llm = note]
       ELSE [respond([s1 EXCEPT !.stage = "cargo_choose"], "manual menu") EXCEPT !.llm = note]

TurnCargoRetry(s, r) ==
    LET s1 == [s EXCEPT !.pending.cargo_retry_count = s.pending.cargo_retry_count + 1]
        desc == IF s.data.cargo_desc = None THEN <<>> ELSE s.data.cargo_desc[1]
        note == <<LLMNote(desc, r)>>
    IN IF r.raised # ""
       THEN [s |-> s1, http |-> 500, reply |-> "", llm |-> note, tariff |-> <<>>]
       ELSE IF r.status = "ok" /\ r.cid # None
       THEN [ respond([s1 EXCEPT !.pending.cargo_proposed =
                                     Some([id |-> r.cid[1], name |-> CARGO_CLASSES[r.cid[1]]]),
                                 !.stage = "cargo_confirm"], "propose class")
              EXCEPT !.llm = note ]
       ELSE IF r.status = "error" /\ s1.pending.cargo_retry_count <= CARGO_RETRY_MAX
       THEN [respond(s1, "wait and resend") EXCEPT !.llm = note]
       ELSE [respond([s1 EXCEPT !.stage = "cargo_choose"], "manual menu") EXCEPT !.llm = note]

TurnCargoChooseNoStore(s, text) ==
    LET cid == parse_manual_cargo_choice(text)
    IN IF cid # None
       THEN respond([s EXCEPT !.stage = "quote_condition"], "ask quote_condition")
       ELSE respond(s, "ask menu number")

TurnCargoChoose(s, text) ==
    LET cid == parse_manual_cargo_choice(text)
    IN IF cid # None
       THEN respond([s EXCEPT !.data.cargo_class_id = cid, !.stage = "quote_condition"],
                    "ask quote_condition")
       ELSE respond(s, "ask menu number")

TurnQuoteSumStay(s, text) ==
    LET val == parse_sum_rub(text)
    IN IF val = None THEN respond(s, "sum not understood")
       ELSE respond([s EXCEPT !.data.sum_insured_rub = val],
                    "ask quote_cargo")

TurnQuoteSum(s, text) ==
    LET val == parse_sum_rub(text)
    IN IF val = None THEN respond(s, "sum not understood")
       ELSE respond([s EXCEPT !.data.sum_insured_rub = val, !.stage = "quote_cargo"],
                    "ask quote_cargo")

TurnQuoteCargoNoReset(s, text, r) ==
    LET s1 == [s EXCEPT !.data.cargo_desc = Some(text)]
        note == <<LLMNote(text, r)>>
    IN IF r.raised # ""
       THEN [s |-> s1, http |-> 500, reply |-> "", llm |-> note, tariff |-> <<>>]
       ELSE IF r.status = "ok" /\ r.cid # None
       THEN [ respond([s1 EXCEPT !.pending.cargo_proposed =
                                     Some([id |-> r.cid[1], name |-> CARGO_CLASSES[r.cid[1]]]),
                                 !.stage = "cargo_confirm"], "propose class")
              EXCEPT !.llm = note ]
       ELSE IF r.status = "error"
       THEN [respond([s1 EXCEPT !.stage = "cargo_retry"], "wait and resend") EXCEPT !.llm = note]
       ELSE [respond([s1 EXCEPT !.stage = "cargo_choose"], "manual menu") EXCEPT !.llm = note]

TurnQuoteCargo(s, text, r) ==
    LET s1 == [s EXCEPT !.data.cargo_desc = Some(text), !.pending.cargo_retry_count = 0]
        note == <<LLMNote(text, r)>>
    IN IF r.raised # ""
       THEN [s |-> s1, http |-> 500, reply |-> "", llm |-> note, tariff |-> <<>>]
       ELSE IF r.status = "ok" /\ r.cid # None
       THEN [ respond([s1 EXCEPT !.pending.cargo_proposed =
                                     Some([id |-> r.cid[1], name |-> CARGO_CLASSES[r.cid[1]]]),
                                 !.stage = "cargo_confirm"], "propose class")
              EXCEPT !.llm = note ]
       ELSE IF r.status = "error"
       THEN [respond([s1 EXCEPT !.stage = "cargo_retry"], "wait and resend") EXCEPT !.llm = note]
       ELSE [respond([s1 EXCEPT !.stage = "cargo_choose"], "manual menu") EXCEPT !.llm = note]

TurnQuoteConditionSkipFranchise(s, text) ==
    LET cond == parse_condition(text)
    IN IF cond = None THEN respond(s, "ask NEW or USED")
       ELSE respond([s EXCEPT !.data.condition = cond, !.data.franchise_rub = Some(20000),
                              !.stage = "quote_reefer"],
                    "ask quote_reefer")

TurnQuoteCondition(s, text) ==
    LET cond == parse_condition(text)
    IN IF cond = None THEN respond(s, "ask NEW or USED")
       ELSE respond([s EXCEPT !.data.condition = cond, !.stage = "quote_franchise"],
                    "ask quote_franchise")

TurnQuoteFranchiseDropsCondition(s, text) ==
    LET fr == parse_franchise(text)
    IN IF fr = None \/ fr[1] \notin Elems(FRANCHISE_OPTIONS) THEN respond(s, "ask franchise from list")
       ELSE respond([s EXCEPT !.data.franchise_rub = fr, !.data.condition = None,
                              !.stage = "quote_reefer"],
                    "ask quote_reefer")

TurnQuoteFranchise(s, text) ==
    LET fr == parse_franchise(text)
    IN IF fr = None \/ fr[1] \notin Elems(FRANCHISE_OPTIONS) THEN respond(s, "ask franchise from list")
       ELSE respond([s EXCEPT !.data.franchise_rub = fr, !.stage = "quote_reefer"],
                    "ask quote_reefer")

TurnQuoteReefer(s, text) ==
    LET rr == parse_reefer(text)
    IN IF rr = None THEN respond(s, "ask reefer yes or no")
       ELSE respond([s EXCEPT !.data.is_reefer = rr, !.stage = "quote_route"], "ask quote_route")

TurnQuoteRouteDefaultAutoOk(s, text, url_set, t) ==
    LET rz == parse_route_zone(text)
        s1 == [s EXCEPT !.data.route_zone = rz]
        payload == [ cargo_class_id |-> s1.data.cargo_class_id[1],
                     sum_insured_rub |-> s1.data.sum_insured_rub[1],
                     condition |-> s1.data.condition[1],
                     franchise_rub |-> s1.data.franchise_rub[1],
                     is_reefer |-> s1.data.is_reefer[1],
                     route_zone |-> s1.data.route_zone[1] ]
        status == TariffCallStatus(url_set, t)
        decision == IF t.decision = None THEN "AUTO_OK" ELSE t.decision[1]
        note == << [ payload |-> payload,
                     outcome |-> IF url_set THEN t.kind ELSE "url_unset",
                     decision |-> IF status = 200 THEN t.decision ELSE None,
                     premium_rub |-> IF status = 200 THEN t.premium_rub ELSE None ] >>
    IN IF rz = None \/ rz[1] \notin {ZoneName(ROUTE_OPTIONS[i]) : i \in 1..Len(ROUTE_OPTIONS)}
       THEN respond(s, "ask zone from list")
       ELSE IF quote_missing(s1.data) # <<>>
       THEN respond([s1 EXCEPT !.stage = "quote_sum"], "data missing, ask quote_sum")
       ELSE IF status # 200
       THEN [s |-> s1, http |-> status, reply |-> "", llm |-> <<>>, tariff |-> note]
       ELSE IF decision = "AUTO_OK"
       THEN [respond([s1 EXCEPT !.stage = "quoted"], "premium, ask to issue")
             EXCEPT !.tariff = note]
       ELSE [respond([s1 EXCEPT !.stage = "refer"], "refer, ask manager")
             EXCEPT !.tariff = note]

TurnQuoteRoute(s, text, url_set, t) ==
    LET rz == parse_route_zone(text)
        s1 == [s EXCEPT !.data.route_zone = rz]
        payload == [ cargo_class_id |-> s1.data.cargo_class_id[1],
                     sum_insured_rub |-> s1.data.sum_insured_rub[1],
                     condition |-> s1.data.condition[1],
                     franchise_rub |-> s1.data.franchise_rub[1],
                     is_reefer |-> s1.data.is_reefer[1],
                     route_zone |-> s1.data.route_zone[1] ]
        status == TariffCallStatus(url_set, t)
        decision == IF t.decision = None THEN "REFER" ELSE t.decision[1]
        note == << [ payload |-> payload,
                     outcome |-> IF url_set THEN t.kind ELSE "url_unset",
                     decision |-> IF status = 200 THEN t.decision ELSE None,
                     premium_rub |-> IF status = 200 THEN t.premium_rub ELSE None ] >>
    IN IF rz = None \/ rz[1] \notin {ZoneName(ROUTE_OPTIONS[i]) : i \in 1..Len(ROUTE_OPTIONS)}
       THEN respond(s, "ask zone from list")
       ELSE IF quote_missing(s1.data) # <<>>
       THEN respond([s1 EXCEPT !.stage = "quote_sum"], "data missing, ask quote_sum")
       ELSE IF status # 200
       THEN [s |-> s1, http |-> status, reply |-> "", llm |-> <<>>, tariff |-> note]
       ELSE IF decision = "AUTO_OK"
       THEN [respond([s1 EXCEPT !.stage = "quoted"], "premium, ask to issue")
             EXCEPT !.tariff = note]
       ELSE [respond([s1 EXCEPT !.stage = "refer"], "refer, ask manager")
             EXCEPT !.tariff = note]

TurnQuoted(s, text) ==
    LET yn == parse_yes_no(text)
    IN IF yn = Some(TRUE) THEN respond([s EXCEPT !.stage = "next_phase"], "next phase")
       ELSE IF yn = Some(FALSE) THEN respond([s EXCEPT !.stage = "intent_select"], "ask intent again")
       ELSE respond(s, "ask yes or no")

TurnRefer(s, text) ==
    LET yn == parse_yes_no(text)
    IN IF yn = Some(TRUE) THEN respond([s EXCEPT !.stage = "handoff"], "handoff")
       ELSE IF yn = Some(FALSE) THEN respond([s EXCEPT !.stage = "intent_select"], "ask intent again")
       ELSE respond(s, "ask yes or no")

TurnFallbackKeepsStage(s, text, r, url_set, t) ==
    IF s.stage = "welcome" THEN TurnWelcome(s)
    ELSE IF s.stage = "intent_select" THEN TurnIntentSelect(s, text)
    ELSE IF s.stage = "consult" THEN TurnConsult(s, text)
    ELSE IF s.stage = "cargo_confirm" /\ s.pending.cargo_proposed # None
    THEN TurnCargoConfirm(s, text)
    ELSE IF s.stage = "cargo_retry" THEN TurnCargoRetry(s, r)
    ELSE IF s.stage = "cargo_choose" THEN TurnCargoChoose(s, text)
    ELSE IF s.stage = "quote_sum" THEN TurnQuoteSum(s, text)
    ELSE IF s.stage = "quote_cargo" THEN TurnQuoteCargo(s, text, r)
    ELSE IF s.stage = "quote_condition" THEN TurnQuoteCondition(s, text)
    ELSE IF s.stage = "quote_franchise" THEN TurnQuoteFranchise(s, text)
    ELSE IF s.stage = "quote_reefer" THEN TurnQuoteReefer(s, text)
    ELSE IF s.stage = "quote_route" THEN TurnQuoteRoute(s, text, url_set, t)
    ELSE IF s.stage = "quoted" THEN TurnQuoted(s, text)
    ELSE IF s.stage = "refer" THEN TurnRefer(s, text)
    ELSE respond(s, "fallback, ask intent")

\* the body of chat on the session s with text = req.message.strip(); r is what
\* llm_classify_cargo_with_trace does when called, t what the tariff engine does
Turn(s, text, r, url_set, t) ==
    IF s.stage = "welcome" THEN TurnWelcome(s)
    ELSE IF s.stage = "intent_select" THEN TurnIntentSelect(s, text)
    ELSE IF s.stage = "consult" THEN TurnConsult(s, text)
    ELSE IF s.stage = "cargo_confirm" /\ s.pending.cargo_proposed # None
    THEN TurnCargoConfirm(s, text)
    ELSE IF s.stage = "cargo_retry" THEN TurnCargoRetry(s, r)
    ELSE IF s.stage = "cargo_choose" THEN TurnCargoChoose(s, text)
    ELSE IF s.stage = "quote_sum" THEN TurnQuoteSum(s, text)
    ELSE IF s.stage = "quote_cargo" THEN TurnQuoteCargo(s, text, r)
    ELSE IF s.stage = "quote_condition" THEN TurnQuoteCondition(s, text)
    ELSE IF s.stage = "quote_franchise" THEN TurnQuoteFranchise(s, text)
    ELSE IF s.stage = "quote_reefer" THEN TurnQuoteReefer(s, text)
    ELSE IF s.stage = "quote_route" THEN TurnQuoteRoute(s, text, url_set, t)
    ELSE IF s.stage = "quoted" THEN TurnQuoted(s, text)
    ELSE IF s.stage = "refer" THEN TurnRefer(s, text)
    ELSE respond([s EXCEPT !.stage = "intent_select"], "fallback, ask intent")

\* what llm_classify_cargo_with_trace(desc, debug_enabled, debug_trace) does in a
\* turn, for every behaviour of the capability over its attempts
DialogLLMResults ==
    { [ configured |-> c,
        result |-> LET r == llm_classify_cargo_with_trace(c, resps, d, LLM_ATTEMPTS_PER_TRY,
                                                          LLM_BASE_DELAY_SEC)
                   IN [raised |-> r.raised, status |-> r.status, cid |-> r.cid] ] :
        c \in BOOLEAN, d \in BOOLEAN,
        resps \in [1..LLM_ATTEMPTS_PER_TRY -> DialogLLMResponses] }

NoLLMCall ==
    [ configured |-> FALSE, result |-> [raised |-> "not called", status |-> "", cid |-> None] ]

CallsClassifier(s) == s.stage \in {"cargo_retry", "quote_cargo"}

\* the stages of the buy path, in the order the questions are asked
BuyPath ==
    << {"quote_sum"}, {"quote_cargo"}, {"cargo_confirm", "cargo_choose"}, {"quote_condition"},
       {"quote_franchise"}, {"quote_reefer"}, {"quote_route"} >>

\* the field a turn handled at the stage collects
FieldOf ==
    [ quote_sum |-> "sum_insured_rub", cargo_confirm |-> "cargo_class_id",
      cargo_choose |-> "cargo_class_id", quote_condition |-> "condition",
      quote_franchise |-> "franchise_rub", quote_reefer |-> "is_reefer",
      quote_route |-> "route_zone" ]

NothingCollected == [f \in {FieldOf[h] : h \in DOMAIN FieldOf} |-> None]

\* a turn enters quote_sum: it was handled at another stage and ends there
EntersQuoteSum(handled, after) == handled # "quote_sum" /\ after.stage = "quote_sum"

\* how many stages of BuyPath, in order, turns have been handled at since the
\* session last entered quote_sum, after a turn handled at the stage handled
\* that left the session as after; k is the number before the turn
BuyPathStep(k, handled, after) ==
    IF EntersQuoteSum(handled, after) THEN 0
    ELSE IF k < Len(BuyPath) /\ handled \in BuyPath[k + 1] THEN k + 1
    ELSE k

\* the values the turns have collected since the session last entered
\* quote_sum: a turn handled at a stage of FieldOf that leaves the stage
\* collects what it left in that stage's field; c is the record before the turn
CollectStep(c, handled, after) ==
    IF EntersQuoteSum(handled, after) THEN NothingCollected
    ELSE IF handled \in DOMAIN FieldOf /\ after.stage # handled
    THEN [c EXCEPT ![FieldOf[handled]] = after.data[FieldOf[handled]]]
    ELSE c

\* POST /chat: one turn of the session sid
chat ==
    \E sid \in SessionIds, message \in Messages :
        \E s \in {_get_session(sessions, sid, now)}, text \in {Strip(message)} :
           /\ s.pending.cargo_retry_count < MaxRetryCount
           /\ \E x \in (IF CallsClassifier(s)
                        THEN {y \in DialogLLMResults : y.configured = client}
                        ELSE {NoLLMCall}),
                 t \in (IF s.stage = "quote_route" THEN TariffOutcomes
                        ELSE {TariffAnswer(None, None, <<>>)}) :
                 \E out \in {Turn(s, text, x.result, tariff_url, t)},
                    fresh \in {SessionExpired(sessions, sid, now)} :
                    /\ sessions' = [sessions EXCEPT ![sid] = Some(out.s)]
                    /\ last' = Some([ sid |-> sid, stage |-> s.stage, fresh |-> fresh,
                                      http |-> out.http, reply |-> out.reply,
                                      llm |-> out.llm, tariff |-> out.tariff,
                                      \* the entry the turn found in the store
                                      found |->
                                          IF sessions[sid] = None THEN "none"
                                          ELSE IF fresh THEN "expired" ELSE "live",
                                      progress |-> BuyPathStep(IF fresh THEN 0
                                                               ELSE last[1].progress,
                                                               s.stage, out.s),
                                      collected |-> CollectStep(IF fresh THEN NothingCollected
                                                                ELSE last[1].collected,
                                                                s.stage, out.s) ])
           /\ UNCHANGED <<cfg, req, resp, calls, llm_in, llm_out, client, tariff_url, now, inflight>>

\* GET /health: _clean_sessions() drops the expired sessions
health ==
    /\ \E sid \in SessionIds : sessions[sid] # None /\ sessions[sid][1].expires_at < now
    /\ sessions' = [sid \in SessionIds |->
                      IF sessions[sid] # None /\ sessions[sid][1].expires_at < now
                      THEN None ELSE sessions[sid]]
    /\ UNCHANGED <<cfg, req, resp, calls, llm_in, llm_out, client, tariff_url, now, last, inflight>>

\* a second passes
Tick ==
    /\ now < MaxTime
    /\ now' = now + 1
    /\ UNCHANGED <<cfg, req, resp, calls, llm_in, llm_out, client, tariff_url, sessions, last, inflight>>

Init ==
    /\ cfg = None
    /\ req = None
    /\ resp = None
    /\ calls = <<>>
    /\ llm_in = None
    /\ llm_out = None
    /\ client \in BOOLEAN
    /\ tariff_url \in BOOLEAN
    /\ sessions = [sid \in SessionIds |-> None]
    /\ now = 0
    /\ last = None
    /\ inflight = None

Next == chat \/ health \/ Tick

Spec == Init /\ [][Next]_vars

(***************************************************************************)
(* Dialog service: conversations with a classifier that answers, a tariff  *)
(* engine that is configured, and no pause long enough for the session to  *)
(* expire, followed up to the rating decision. The user types from a wider *)
(* set of messages, and last also records the text of the turn and how far *)
(* the conversation                                                        *)
(* follows scenario 1.                                                     *)
(***************************************************************************)
InputMessages ==
    { <<"ru:Oform", "ru:it'">>,
      <<"5", " ", "0", "0", "0", " ", "0", "0", "0">>,
      <<"0", " ", "ru:mln">>,
      <<"ru:televizory">>,
      <<" ", "ru:Da", " ">>,
      <<"ru:ne", "ru:t">>,
      <<"NEW">>,
      <<"2", "0", "0", "0", "0">>,
      <<"ru:RF">>,
      <<"3">>,
      <<"0">>,
      <<"1", "6">>,
      <<"1", "7">>,
      <<"cargo003">> }

\* the eight messages of end-to-end scenario 1
Scenario1 ==
    << <<"ru:Oform", "ru:it'">>,
       <<"5", " ", "0", "0", "0", " ", "0", "0", "0">>,
       <<"ru:televizory">>,
       <<" ", "ru:Da", " ">>,
       <<"NEW">>,
       <<"2", "0", "0", "0", "0">>,
       <<"ru:ne", "ru:t">>,
       <<"ru:RF">> >>

\* the scenario's environment: the classifier, where the turn calls it, answers
\* ok/CARGO003, and the rating engine, where the turn calls it, answers AUTO_OK
Scenario1Env(s, r, t) ==
    /\ CallsClassifier(s) => (r.raised = "" /\ r.status = "ok" /\ r.cid = Some("CARGO003"))
    /\ s.stage = "quote_route" => t.decision = Some("AUTO_OK")

\* how many turns of scenario 1 have been played after this turn, when k had
\* been played before it: None once the conversation has left the scenario
Scenario1Step(k, s, text, r, t) ==
    IF k # None /\ k[1] < Len(Scenario1) /\ text = Strip(Scenario1[k[1] + 1])
       /\ Scenario1Env(s, r, t)
    THEN Some(k[1] + 1)
    ELSE None

\* the classifier is configured and answers every invocation of these
\* conversations: it proposes a class or it is uncertain
InputLLMResults ==
    {y \in DialogLLMResults : y.configured /\ y.result.status \in {"ok", "uncertain"}}

\* POST /chat: one turn of the session sid
chat_input ==
    \E sid \in SessionIds, message \in InputMessages :
        \E s \in {_get_session(sessions, sid, now)}, text \in {Strip(message)},
           fresh \in {SessionExpired(sessions, sid, now)} :
           /\ s.pending.cargo_retry_count < MaxRetryCount
           /\ s.stage \notin {"quoted", "refer"}
           /\ \E x \in (IF CallsClassifier(s)
                        THEN InputLLMResults
                        ELSE {NoLLMCall}),
                 t \in (IF s.stage = "quote_route" THEN TariffOutcomes
                        ELSE {TariffAnswer(None, None, <<>>)}) :
                 \E out \in {Turn(s, text, x.result, tariff_url, t)} :
                    /\ sessions' = [sessions EXCEPT ![sid] = Some(out.s)]
                    /\ last' = Some([ sid |-> sid, stage |-> s.stage, fresh |-> fresh,
                                      http |-> out.http, reply |-> out.reply,
                                      llm |-> out.llm, tariff |-> out.tariff,
                                      text |-> text,
                                      \* scenario 1 counted from the turn that creates the session
                                      played |-> Scenario1Step(IF fresh THEN Some(0)
                                                               ELSE last[1].played,
                                                               s, text, x.result, t),
                                      \* scenario 1 counted from the turn after the greeting
                                      played_greeted |->
                                          IF fresh THEN Some(0)
                                          ELSE Scenario1Step(last[1].played_greeted,
                                                             s, text, x.result, t) ])
           /\ UNCHANGED <<cfg, req, resp, calls, llm_in, llm_out, client, tariff_url, now, inflight>>

InitInputs ==
    /\ cfg = None
    /\ req = None
    /\ resp = None
    /\ calls = <<>>
    /\ llm_in = None
    /\ llm_out = None
    /\ client = TRUE
    /\ tariff_url = TRUE
    /\ sessions = [sid \in SessionIds |-> None]
    /\ now = 0
    /\ last = None
    /\ inflight = None

NextInputs == chat_input

SpecInputs == InitInputs /\ [][NextInputs]_vars

(***************************************************************************)
(* Dialog service: overlapping turns. chat is a plain def, so the server    *)
(* runs each request on a thread of its pool; the handlers of two requests  *)
(* for one session id work on the same session dict, and a handler gives up *)
(* the processor while it waits for the classifier or the tariff engine.    *)
(* A handler therefore runs in two steps when it makes such a call: from    *)
(* _get_session to the call, and from the call's return to the response.    *)
(* inflight holds the requests of the current episode (from the moment a    *)
(* request arrives while none is being handled until all have been         *)
(* answered) and base, the session as the first of them found it.           *)
(***************************************************************************)
MaxThreads == 2

Threads == 1..MaxThreads

IdleRequest ==
    [ pc |-> "idle", sid |-> "", stage |-> "", text |-> <<>>, result |-> NoLLMCall.result,
      t |-> TariffAnswer(None, None, <<>>) ]

\* what the classifier invocation of a turn on s can do, and the tariff engine
LLMFor(s) ==
    IF CallsClassifier(s) THEN {y.result : y \in {z \in DialogLLMResults : z.configured = client}}
    ELSE {NoLLMCall.result}

TariffFor(s) ==
    IF s.stage = "quote_route" THEN TariffOutcomes ELSE {TariffAnswer(None, None, <<>>)}

\* the handler of this turn waits for the classifier or for the tariff engine
Blocks(s, text) ==
    \/ CallsClassifier(s)
    \/ /\ s.stage = "quote_route"
       /\ tariff_url
       /\ parse_route_zone(text) # None
       /\ quote_missing([s.data EXCEPT !.route_zone = parse_route_zone(text)]) = <<>>

\* the session when the handler enters the call: the writes made so far are
\* those of a turn whose call raises
BeforeCall(s, text) ==
    Turn(s, text, [raised |-> "Exception", status |-> "", cid |-> None], tariff_url,
         [kind |-> "unreachable", decision |-> None, premium_rub |-> None, reasons |-> <<>>]).s

\* the writes of the quote_cargo and cargo_retry branches after the classifier
\* has returned r, on the session as it is by then
AfterClassifier(cur, stage, r) ==
    IF r.raised # "" THEN cur
    ELSE IF r.status = "ok" /\ r.cid # None
    THEN [cur EXCEPT !.pending.cargo_proposed =
                         Some([id |-> r.cid[1], name |-> CARGO_CLASSES[r.cid[1]]]),
                     !.stage = "cargo_confirm"]
    ELSE IF stage = "quote_cargo"
    THEN [cur EXCEPT !.stage = IF r.status = "error" THEN "cargo_retry" ELSE "cargo_choose"]
    ELSE IF r.status = "error" /\ cur.pending.cargo_retry_count <= CARGO_RETRY_MAX
    THEN cur
    ELSE [cur EXCEPT !.stage = "cargo_choose"]

\* the writes of the quote_route branch after the tariff engine has answered t
AfterTariff(cur, t) ==
    IF TariffCallStatus(tariff_url, t) # 200 THEN cur
    ELSE IF t.decision = Some("AUTO_OK") THEN [cur EXCEPT !.stage = "quoted"]
    ELSE [cur EXCEPT !.stage = "refer"]

\* POST /chat arrives and its handler runs up to its first call, or to the end
chat_begin ==
    \E th \in Threads, sid \in SessionIds, message \in Messages :
        LET quiet == \A k \in Threads : inflight.reqs[k].pc # "waiting"
            reqs == IF quiet THEN [k \in Threads |-> IdleRequest] ELSE inflight.reqs
            s == _get_session(sessions, sid, now)
            text == Strip(message)
            out == Turn(s, text, NoLLMCall.result, tariff_url, TariffAnswer(None, None, <<>>))
        IN /\ reqs[th].pc = "idle"
           /\ \A k \in Threads : k < th => reqs[k].pc # "idle"
           /\ s.pending.cargo_retry_count < MaxRetryCount
           /\ s.stage \notin {"quoted", "refer"}
           /\ sessions' = [sessions EXCEPT ![sid] =
                               Some(IF Blocks(s, text) THEN BeforeCall(s, text) ELSE out.s)]
           /\ inflight' =
                  [ base |-> IF quiet THEN Some(s) ELSE inflight.base,
                    reqs |-> [reqs EXCEPT ![th] =
                                [ IdleRequest EXCEPT
                                    !.pc = IF Blocks(s, text) THEN "waiting" ELSE "done",
                                    !.sid = sid, !.stage = s.stage, !.text = text ]] ]
           /\ UNCHANGED <<cfg, req, resp, calls, llm_in, llm_out, client, tariff_url, now, last>>

\* the call of a waiting handler returns and the handler runs to its end
chat_end ==
    \E th \in Threads :
        LET r == inflight.reqs[th]
            cur == sessions[r.sid][1]
        IN /\ r.pc = "waiting"
           /\ \E x \in LLMFor([stage |-> r.stage]), t \in TariffFor([stage |-> r.stage]) :
                 /\ sessions' = [sessions EXCEPT ![r.sid] =
                                     Some(IF r.stage = "quote_route" THEN AfterTariff(cur, t)
                                          ELSE AfterClassifier(cur, r.stage, x))]
                 /\ inflight' = [inflight EXCEPT !.reqs[th] =
                                     [r EXCEPT !.pc = "done", !.result = x, !.t = t]]
           /\ UNCHANGED <<cfg, req, resp, calls, llm_in, llm_out, client, tariff_url, now, last>>

InitOverlap ==
    /\ cfg = None
    /\ req = None
    /\ resp = None
    /\ calls = <<>>
    /\ llm_in = None
    /\ llm_out = None
    /\ client = TRUE
    /\ tariff_url = TRUE
    /\ sessions = [sid \in SessionIds |-> None]
    /\ now = 0
    /\ last = None
    /\ inflight = [base |-> None, reqs |-> [k \in Threads |-> IdleRequest]]

NextOverlap == chat_begin \/ chat_end

SpecOverlap == InitOverlap /\ [][NextOverlap]_vars

(***************************************************************************)
(* Dialog service: one turn on a stored session. The handler is applied to *)
(* a session as a turn can find it in the store: at any of the stage names *)
(* chat assigns, with the fields of an earlier quote still stored (chat     *)
(* never clears them), and with or without a proposal. A session at         *)
(* cargo_confirm whose proposal is unset is what a turn finds when it       *)
(* arrives while the handler of a confirming turn of the same session is    *)
(* between its assignments to pending and to stage.                         *)
(***************************************************************************)
\* the stage names chat assigns
Stages ==
    { "intent_select", "consult", "quote_sum", "quote_cargo", "cargo_confirm", "cargo_retry",
      "cargo_choose", "quote_condition", "quote_franchise", "quote_reefer", "quote_route",
      "quoted", "refer", "next_phase", "handoff" }

StoredSessions ==
    { [ stage |-> st,
        intent |-> Some("buy"),
        data |-> [ sum_insured_rub |-> Some(5000000), cargo_desc |-> Some(<<"ru:televizory">>),
                   cargo_class_id |-> Some("CARGO003"), condition |-> Some("NEW"),
                   franchise_rub |-> Some(20000), is_reefer |-> Some(FALSE),
                   route_zone |-> Some("RF") ],
        pending |-> [ cargo_proposed |-> p, cargo_retry_count |-> n ],
        expires_at |-> SESSION_TTL_SEC ] :
        st \in Stages,
        p \in {None, Some([id |-> "CARGO005", name |-> CARGO_CLASSES["CARGO005"]])},
        n \in 0..CARGO_RETRY_MAX }

\* POST /chat: the turn of the session sid
chat_stored ==
    /\ last = None
    /\ \E sid \in SessionIds, message \in Messages :
          \E s \in {_get_session(sessions, sid, now)}, text \in {Strip(message)} :
             \E x \in (IF CallsClassifier(s)
                       THEN {y \in DialogLLMResults : y.configured = client}
                       ELSE {NoLLMCall}),
                t \in (IF s.stage = "quote_route" THEN TariffOutcomes
                       ELSE {TariffAnswer(None, None, <<>>)}) :
                \E out \in {Turn(s, text, x.result, tariff_url, t)} :
                   /\ sessions' = [sessions EXCEPT ![sid] = Some(out.s)]
                   /\ last' = Some([ sid |-> sid, stage |-> s.stage, before |-> s,
                                     http |-> out.http, reply |-> out.reply,
                                     llm |-> out.llm, tariff |-> out.tariff ])
    /\ UNCHANGED <<cfg, req, resp, calls, llm_in, llm_out, client, tariff_url, now, inflight>>

InitStored ==
    /\ cfg = None
    /\ req = None
    /\ resp = None
    /\ calls = <<>>
    /\ llm_in = None
    /\ llm_out = None
    /\ client = TRUE
    /\ tariff_url = TRUE
    /\ sessions \in [SessionIds -> {Some(s) : s \in StoredSessions}]
    /\ now = 0
    /\ last = None
    /\ inflight = None

NextStored == chat_stored

SpecStored == InitStored /\ [][NextStored]_vars

(***************************************************************************)
(* Claims about the tariff service (checked under SpecTariff)              *)
(***************************************************************************)
\* the six checks of the rating decision, in the documented order: TRUE = the check fails
ChecksFailing(c, f) ==
    << f.cargo_class_id \notin DOMAIN c.base_rates,
       f.cargo_class_id \in DOMAIN c.base_rates
           /\ f.condition \notin DOMAIN c.base_rates[f.cargo_class_id],
       f.sum_insured_rub * DecScale > c.auto_limit_rub,
       (IF f.franchise_rub = 20000 THEN "20000" ELSE "30000") \notin DOMAIN c.k_franchise,
       f.route_zone \notin DOMAIN c.k_route,
       (IF f.is_reefer THEN "true" ELSE "false") \notin DOMAIN c.k_reefer >>

CheckOutcome ==
    << <<"DECLINE", <<"CARGO_NOT_ELIGIBLE">>>>,
       <<"REFER", <<"CONDITION_NOT_SUPPORTED">>>>,
       <<"REFER", <<"LIMIT_EXCEEDED">>>>,
       <<"REFER", <<"FRANCHISE_NOT_SUPPORTED">>>>,
       <<"REFER", <<"ROUTE_ZONE_NOT_SUPPORTED">>>>,
       <<"REFER", <<"REEFER_FLAG_NOT_SUPPORTED">>>> >>

\* C1: the decision and reason list of every handled request are those of the
\* first failing check in the order cargo, condition, limit (strictly above
\* autoLimit), franchise, route zone, reefer flag, and AUTO_OK with no reason
\* when no check fails; a non-AUTO_OK result carries exactly one reason.
C1_FirstFailingCheck ==
    resp # None =>
        LET r == resp[1]
            failing == ChecksFailing(cfg, r.facts)
            idx == {i \in 1..6 : failing[i]}
        IN /\ idx = {} => r.decision = "AUTO_OK" /\ r.reasons = <<>>
           /\ idx # {} =>
                 LET first == CHOOSE i \in idx : \A j \in idx : i <= j
                 IN r.decision = CheckOutcome[first][1] /\ r.reasons = CheckOutcome[first][2]
           /\ r.decision # "AUTO_OK" => Len(r.reasons) = 1

\* an over-limit sum with an unsupported franchise was answered LIMIT_EXCEEDED
C1_Witness ==
    /\ resp # None
    /\ _d(resp[1].facts.sum_insured_rub) > cfg.auto_limit_rub
    /\ StrInt(resp[1].facts.franchise_rub) \notin DOMAIN cfg.k_franchise
    /\ resp[1].reasons = <<"LIMIT_EXCEEDED">>

\* C2: quote is called only after assess answered AUTO_OK for the same facts;
\* for REFER and DECLINE it is not called and the response carries no premium
\* and no min_premium_applied.
C2_QuoteOnlyAfterAutoOk ==
    resp # None =>
        LET r == resp[1]
        IN /\ calls[1] = "assess"
           /\ (\E i \in 1..Len(calls) : calls[i] = "quote") =>
                 /\ calls = <<"assess", "quote">>
                 /\ assess(cfg, r.facts)[1] = "AUTO_OK"
           /\ assess(cfg, r.facts)[1] \in {"REFER", "DECLINE"} =>
                 /\ calls = <<"assess">>
                 /\ r.decision = assess(cfg, r.facts)[1]
                 /\ r.premium_rub = None
                 /\ r.min_premium_applied = None

\* a request whose facts quote could price was referred, and quote was not called
C2_Witness ==
    /\ resp # None
    /\ resp[1].decision = "REFER"
    /\ QuoteKeysExist(cfg, resp[1].facts)
    /\ calls = <<"assess">>

\* C3: the premium of an accepted request is never below minPremium, and
\* min_applied is true exactly when the rounded premium was strictly below
\* minPremium, in which case the premium is minPremium.
C3_MinPremiumClamp ==
    (resp # None /\ resp[1].decision = "AUTO_OK") =>
        LET r == resp[1]
            rounded == PremiumRounded(cfg, r.facts)
        IN /\ r.premium_rub # None
           /\ r.premium_rub[1] >= cfg.min_premium_rub
           /\ r.min_premium_applied[1] <=> (rounded < cfg.min_premium_rub)
           /\ r.min_premium_applied[1] => r.premium_rub[1] = cfg.min_premium_rub
           /\ ~r.min_premium_applied[1] => r.premium_rub[1] = rounded

\* an accepted request whose rounded premium was below a positive minimum
C3_Witness ==
    /\ resp # None
    /\ resp[1].decision = "AUTO_OK"
    /\ resp[1].min_premium_applied = Some(TRUE)
    /\ PremiumRounded(cfg, resp[1].facts) < cfg.min_premium_rub

\* C4: the premium of an accepted request is non-negative and an integer
\* multiple of the table's rounding step, also when the minimum was applied.
C4_PremiumMultipleOfStep ==
    (resp # None /\ resp[1].decision = "AUTO_OK") =>
        /\ resp[1].premium_rub[1] >= 0
        /\ resp[1].premium_rub[1] % (cfg.rounding_step_rub * DecScale) = 0

\* C29: for every table and every facts for which assess answers AUTO_OK,
\* the four lookups of quote hit an existing key: the base rate by cargo class
\* and upper-cased condition, the franchise coefficient by str(franchise), the
\* reefer coefficient by the lower-cased flag and the route coefficient by
\* zone; so no request is answered through the KeyError branch of post_quote.
C29_AutoOkKeysExist ==
    resp # None =>
        LET f == resp[1].facts
        IN /\ assess(cfg, f)[1] = "AUTO_OK" =>
                 /\ f.cargo_class_id \in DOMAIN cfg.base_rates
                 /\ Upper(f.condition) \in DOMAIN cfg.base_rates[f.cargo_class_id]
                 /\ StrInt(f.franchise_rub) \in DOMAIN cfg.k_franchise
                 /\ Lower(StrBool(f.is_reefer)) \in DOMAIN cfg.k_reefer
                 /\ f.route_zone \in DOMAIN cfg.k_route
                 /\ ~quote(cfg, f).key_error
                 /\ calls = <<"assess", "quote">>
           /\ resp[1].http = 200

\* a request has been priced under a table that has no coefficient for
\* reefer = true and no rate for other cargo classes or conditions
C29_Witness ==
    /\ resp # None
    /\ resp[1].decision = "AUTO_OK"
    /\ resp[1].http = 200
    /\ resp[1].premium_rub # None
    /\ calls = <<"assess", "quote">>
    /\ DOMAIN cfg.k_reefer = {"false"}
    /\ DOMAIN cfg.base_rates = {"CARGO003"}

\* premium_raw of quote for the facts f (defined when all four lookups hit)
RawPremium(c, f) ==
    f.sum_insured_rub * c.base_rates[f.cargo_class_id][Upper(f.condition)]
        * c.k_franchise[StrInt(f.franchise_rub)] * c.k_reefer[Lower(StrBool(f.is_reefer))]
        * c.k_route[f.route_zone]

Abs(x) == IF x < 0 THEN -x ELSE x

\* r is the amount rounded to the step as the rounding policy prescribes
RoundedAsPrescribed(amount, step_rub, mode, r) ==
    LET step == _d(step_rub)
    IN /\ r % step = 0
       /\ IF mode = "CEIL"
          THEN r >= amount /\ r - step < amount
          ELSE /\ 2 * Abs(r - amount) <= step
               /\ 2 * Abs(r - amount) = step => Abs(r) > Abs(amount)
       /\ amount % step = 0 => r = amount

\* raw amounts on both sides of zero, on and off the step boundaries and the
\* exact halves, rounded to steps of 1, 2 and 3 roubles
RoundMoneyOnGrid ==
    \A amount \in -_d(MaxSum) .. _d(MaxSum), step_rub \in RoundingSteps \cup {3},
       mode \in RoundingModes :
        RoundedAsPrescribed(amount, step_rub, mode, _round_money(amount, step_rub, mode))

\* C27: _round_money maps a raw amount to a multiple of step_rub: with mode
\* CEIL to the smallest multiple that is >= the amount, with any other mode to
\* the nearest multiple, exact halves going away from zero; an amount on a
\* step boundary is returned unchanged, and with step 1 this is rounding to
\* whole roubles. It holds for the raw premium of every accepted request, to
\* which the minimum was not applied, and for every amount of the grid.
C27_RoundMoney ==
    /\ RoundMoneyOnGrid
    /\ ( /\ resp # None
         /\ resp[1].decision = "AUTO_OK"
         /\ resp[1].min_premium_applied = Some(FALSE) ) =>
           RoundedAsPrescribed(RawPremium(cfg, resp[1].facts), cfg.rounding_step_rub,
                               cfg.rounding_mode, resp[1].premium_rub[1])

\* an accepted request whose raw premium lies strictly between two multiples
\* of a 2-rouble step has been rounded up to the higher one in mode CEIL
C27_Witness ==
    /\ resp # None
    /\ resp[1].decision = "AUTO_OK"
    /\ resp[1].min_premium_applied = Some(FALSE)
    /\ cfg.rounding_mode = "CEIL"
    /\ cfg.rounding_step_rub = 2
    /\ RawPremium(cfg, resp[1].facts) % _d(2) # 0
    /\ 2 * (resp[1].premium_rub[1] - RawPremium(cfg, resp[1].facts)) > _d(2)

(***************************************************************************)
(* Claims about the classifier adapter (checked under SpecLLM)             *)
(***************************************************************************)
\* the capability failed on attempt i: transport failure, or the content is
\* not JSON, or it is JSON but not an object
CallFailed(r) == r.kind \in {"transport", "not_json", "not_object"}

\* C5: the adapter never raises, whatever the capability does and whether
\* debug is on or off; it returns ok, uncertain or error, with a whitelist id
\* exactly when the status is ok.
C5_NeverRaises ==
    llm_out # None =>
        /\ llm_out[1].raised = ""
        /\ llm_out[1].status \in {"ok", "uncertain", "error"}
        /\ llm_out[1].status = "ok" <=> llm_out[1].cid # None
        /\ llm_out[1].cid # None => llm_out[1].cid[1] \in DOMAIN CARGO_CLASSES

\* the events of N failed attempts with linear backoff: call 1, sleep d,
\* call 2, sleep 2d, ..., call N
BackoffEvents(n, d) ==
    [ i \in 1..(2 * n - 1) |->
        IF i % 2 = 1 THEN <<"call", (i + 1) \div 2>> ELSE <<"sleep", d * (i \div 2)>> ]

\* C6: when the capability is configured and every call fails, one invocation
\* makes exactly max_attempts attempts, sleeps baseDelay, 2*baseDelay, ...,
\* (N-1)*baseDelay between them, does not sleep after the last, and returns error.
C6_BackoffOnFailure ==
    ( /\ llm_out # None
      /\ llm_in[1].configured
      /\ \A i \in 1..llm_in[1].max_attempts : CallFailed(llm_in[1].resps[i]) ) =>
        /\ llm_out[1].raised = ""
        /\ llm_out[1].status = "error"
        /\ llm_out[1].cid = None
        /\ llm_out[1].events = BackoffEvents(llm_in[1].max_attempts, llm_in[1].base_delay_sec)

\* an invocation of three attempts that all failed has returned
C6_Witness ==
    /\ llm_out # None
    /\ llm_in[1].configured
    /\ llm_in[1].max_attempts = 3
    /\ \A i \in 1..3 : CallFailed(llm_in[1].resps[i])
    /\ llm_in[1].resps[1] # llm_in[1].resps[3]
    /\ Len(llm_out[1].events) = 5

\* the attempts on which the classifier answered with a non-empty rationale
\* and proposed no whitelist id
Rationales(resps) ==
    { i \in DOMAIN resps :
        /\ resps[i].kind = "object"
        /\ Hashable(resps[i].cid)
        /\ ~InCargoClasses(resps[i].cid)
        /\ Truthy(resps[i].reason) }

\* C7: when the invocation returns and no attempt produced ok, the result is
\* error exactly when the last attempt was a call failure, and otherwise
\* uncertain with the most recent non-empty rationale of the classifier,
\* whatever the text of that rationale is.
C7_ErrorIffLastCallFailed ==
    ( /\ llm_out # None
      /\ llm_in[1].configured
      /\ llm_out[1].raised = ""
      /\ llm_out[1].status # "ok" ) =>
        LET resps == llm_in[1].resps
            lastr == resps[llm_in[1].max_attempts]
            rs == Rationales(resps)
        IN /\ llm_out[1].status = "error" <=> (CallFailed(lastr) \/ ~Hashable(lastr.cid))
           /\ (llm_out[1].status = "uncertain" /\ rs # {}) =>
                 llm_out[1].reason = resps[CHOOSE i \in rs : \A j \in rs : j <= i].reason

\* the attempts on which the capability answers an object whose cargo_class_id
\* is a whitelist id
OkAttempts(resps) ==
    {i \in DOMAIN resps : resps[i].kind = "object" /\ InCargoClasses(resps[i].cid)}

\* C26: within one invocation the first attempt that yields ok ends the
\* invocation at once: when the invocation gets to make that attempt, it
\* returns the whitelist id of that attempt with status ok and that attempt's
\* reason, and the call of that attempt is the last thing it does: no attempt
\* and no sleep follows, whether the attempts before it were errors or uncertain.
C26_FirstOkReturns ==
    ( /\ llm_out # None
      /\ llm_in[1].configured
      /\ \E i \in OkAttempts(llm_in[1].resps) :
             \E e \in 1..Len(llm_out[1].events) : llm_out[1].events[e] = <<"call", i>> ) =>
        LET resps == llm_in[1].resps
            first == CHOOSE i \in OkAttempts(resps) : \A j \in OkAttempts(resps) : i <= j
            events == llm_out[1].events
        IN /\ llm_out[1].raised = ""
           /\ llm_out[1].status = "ok"
           /\ llm_out[1].cid = Some(resps[first].cid.s[1])
           /\ llm_out[1].reason = resps[first].reason
           /\ events = BackoffEvents(first, llm_in[1].base_delay_sec)
           /\ events[Len(events)] = <<"call", first>>

\* an invocation whose first attempt failed and whose second was uncertain has
\* returned the id of the third attempt
C26_Witness ==
    /\ llm_out # None
    /\ llm_in[1].configured
    /\ llm_in[1].max_attempts = 3
    /\ CallFailed(llm_in[1].resps[1])
    /\ llm_in[1].resps[2] = Answer(JNull, JStr(<<"not", "sure">>))
    /\ OkAttempts(llm_in[1].resps) = {3}
    /\ llm_out[1].status = "ok"
    /\ llm_out[1].cid = Some("CARGO003")
    /\ Len(llm_out[1].events) = 5

(***************************************************************************)
(* Claims about the dialog state machine (checked under Spec)              *)
(***************************************************************************)
\* the session of the last turn, while the store still holds it
LastTurnAt(stage) ==
    /\ last # None
    /\ last[1].stage = stage
    /\ sessions[last[1].sid] # None

LastSession == sessions[last[1].sid][1]

\* C8: a turn handled at quote_cargo stores the text as cargo description,
\* sets the retry counter to 0, invokes the classifier once, and ends in
\* cargo_confirm with the proposal {id, name} on ok, in cargo_retry on error,
\* in cargo_choose on uncertain; no other stage follows.
C8_QuoteCargoTurn ==
    LastTurnAt("quote_cargo") =>
        LET s == LastSession
            n == last[1].llm
        IN /\ Len(n) = 1
           /\ s.data.cargo_desc = Some(n[1].desc)
           /\ s.pending.cargo_retry_count = 0
           /\ n[1].status = "ok" =>
                 /\ s.stage = "cargo_confirm"
                 /\ s.pending.cargo_proposed =
                        Some([id |-> n[1].cid[1], name |-> CARGO_CLASSES[n[1].cid[1]]])
           /\ n[1].status = "error" => s.stage = "cargo_retry"
           /\ n[1].status = "uncertain" => s.stage = "cargo_choose"
           /\ s.stage \in {"cargo_confirm", "cargo_retry", "cargo_choose"}

\* C9: a turn handled at cargo_retry invokes the classifier once, on the
\* stored cargo description, and ends in cargo_confirm with the proposal on
\* ok, stays in cargo_retry on error while the incremented counter is at most
\* CARGO_RETRY_MAX, and ends in cargo_choose on error above the maximum and
\* on uncertain.
C9_CargoRetryTurn ==
    LastTurnAt("cargo_retry") =>
        LET s == LastSession
            n == last[1].llm
            count == s.pending.cargo_retry_count
        IN /\ Len(n) = 1
           /\ n[1].desc = (IF s.data.cargo_desc = None THEN <<>> ELSE s.data.cargo_desc[1])
           /\ count >= 1
           /\ n[1].status = "ok" =>
                 /\ s.stage = "cargo_confirm"
                 /\ s.pending.cargo_proposed =
                        Some([id |-> n[1].cid[1], name |-> CARGO_CLASSES[n[1].cid[1]]])
           /\ (n[1].status = "error" /\ count <= CARGO_RETRY_MAX) => s.stage = "cargo_retry"
           /\ (n[1].status = "error" /\ count > CARGO_RETRY_MAX) => s.stage = "cargo_choose"
           /\ n[1].status = "uncertain" => s.stage = "cargo_choose"

\* the retry turn number CARGO_RETRY_MAX has ended in error and the session
\* is still in cargo_retry
C9_Witness ==
    /\ LastTurnAt("cargo_retry")
    /\ last[1].llm[1].status = "error"
    /\ LastSession.pending.cargo_retry_count = CARGO_RETRY_MAX
    /\ LastSession.stage = "cargo_retry"
    /\ LastSession.data.cargo_desc # None

\* C10 as stated: once the retry counter exceeds CARGO_RETRY_MAX, the turn
\* ends in cargo_choose whatever the classifier returned, ok included.
C10_AlwaysChooseAboveMax ==
    ( /\ LastTurnAt("cargo_retry")
      /\ last[1].llm[1].status \in {"ok", "error", "uncertain"}
      /\ LastSession.pending.cargo_retry_count > CARGO_RETRY_MAX ) =>
        LastSession.stage = "cargo_choose"

\* C10 (amended): once the retry counter exceeds CARGO_RETRY_MAX, a cargo_retry
\* turn whose classifier outcome is error or uncertain ends in cargo_choose,
\* and one whose outcome is ok still ends in cargo_confirm.
C10_ChooseAboveMaxUnlessOk ==
    ( /\ LastTurnAt("cargo_retry")
      /\ LastSession.pending.cargo_retry_count > CARGO_RETRY_MAX ) =>
        /\ last[1].llm[1].status \in {"error", "uncertain"} => LastSession.stage = "cargo_choose"
        /\ last[1].llm[1].status = "ok" => LastSession.stage = "cargo_confirm"

\* the retry turn number CARGO_RETRY_MAX + 1 has ended in error and the
\* session has moved to the manual menu
C10_Witness ==
    /\ LastTurnAt("cargo_retry")
    /\ last[1].llm[1].status = "error"
    /\ LastSession.pending.cargo_retry_count = CARGO_RETRY_MAX + 1
    /\ LastSession.stage = "cargo_choose"

\* a step of chat: time stands still and no session leaves the store
\* (Tick moves the clock, health drops at least one session)
ChatStep ==
    /\ now' = now
    /\ last' # None
    /\ \A sid \in SessionIds : sessions[sid] # None => sessions'[sid] # None
    /\ sessions'[last'[1].sid] # None

\* the session the handler of the step worked on, as _get_session returned it,
\* and the session as the handler left it
TurnBefore == _get_session(sessions, last'[1].sid, now)

TurnAfter == sessions'[last'[1].sid][1]

\* C11: over the turns of a session the retry counter is incremented by
\* exactly 1 by each turn handled at cargo_retry, set to 0 by each turn
\* handled at quote_cargo, and left unchanged by the turns at every other stage.
C11_RetryCounterSteps ==
    [][ ChatStep =>
          LET before == TurnBefore.pending.cargo_retry_count
              after == TurnAfter.pending.cargo_retry_count
          IN /\ TurnBefore.stage = last'[1].stage
             /\ IF last'[1].stage = "cargo_retry" THEN after = before + 1
                ELSE IF last'[1].stage = "quote_cargo" THEN after = 0
                ELSE after = before ]_vars

\* two retry turns have counted the counter up to 2, the second one ending
\* in a proposal
C11_Witness ==
    /\ LastTurnAt("cargo_retry")
    /\ LastSession.pending.cargo_retry_count = 2
    /\ LastSession.stage = "cargo_confirm"

\* C13: in every stored session, expired ones included, the pending proposal
\* is set if and only if the stage is cargo_confirm; a turn creates it only
\* on a classifier ok result, and only the confirming or rejecting turn that
\* leaves cargo_confirm clears it.
C13_ProposalIffCargoConfirm ==
    /\ [](\A sid \in SessionIds :
            sessions[sid] # None =>
               (sessions[sid][1].pending.cargo_proposed # None
                    <=> sessions[sid][1].stage = "cargo_confirm"))
    /\ [][ ChatStep =>
             /\ (TurnBefore.pending.cargo_proposed = None
                   /\ TurnAfter.pending.cargo_proposed # None) =>
                    /\ Len(last'[1].llm) = 1
                    /\ last'[1].llm[1].status = "ok"
                    /\ TurnAfter.pending.cargo_proposed[1].id = last'[1].llm[1].cid[1]
             /\ (TurnBefore.pending.cargo_proposed # None
                   /\ TurnAfter.pending.cargo_proposed = None) =>
                    /\ last'[1].stage = "cargo_confirm"
                    /\ TurnAfter.stage \in {"quote_condition", "quote_cargo"}
             /\ (TurnBefore.pending.cargo_proposed # None
                   /\ TurnAfter.pending.cargo_proposed # None) =>
                    TurnAfter.pending.cargo_proposed = TurnBefore.pending.cargo_proposed ]_vars

\* a classifier ok result at quote_cargo has created the proposal
C13_Witness ==
    /\ LastTurnAt("quote_cargo")
    /\ last[1].llm[1].status = "ok"
    /\ LastSession.stage = "cargo_confirm"
    /\ LastSession.pending.cargo_proposed =
           Some([id |-> "CARGO003", name |-> CARGO_CLASSES["CARGO003"]])

\* the tariff call of the last turn
LastTariffCall == last[1].tariff[1]

\* C16: a turn enters stage quoted only at quote_route and with the rating
\* decision AUTO_OK, and enters stage refer only at quote_route and with
\* the rating decision REFER or DECLINE or with no decision in the answer.
C16_QuotedReferOnlyByDecision ==
    [][ ChatStep =>
          /\ (TurnAfter.stage = "quoted" /\ TurnBefore.stage # "quoted") =>
                /\ last'[1].stage = "quote_route"
                /\ Len(last'[1].tariff) = 1
                /\ last'[1].tariff[1].outcome = "json"
                /\ last'[1].tariff[1].decision = Some("AUTO_OK")
          /\ (TurnAfter.stage = "refer" /\ TurnBefore.stage # "refer") =>
                /\ last'[1].stage = "quote_route"
                /\ Len(last'[1].tariff) = 1
                /\ last'[1].tariff[1].outcome = "json"
                /\ last'[1].tariff[1].decision \in {Some("REFER"), Some("DECLINE"), None} ]_vars

\* the rating engine has declined and the session is in refer
C16_Witness ==
    /\ LastTurnAt("quote_route")
    /\ Len(last[1].tariff) = 1
    /\ LastTariffCall.decision = Some("DECLINE")
    /\ LastSession.stage = "refer"

\* C17: when the rating decision of a quote_route turn is AUTO_OK, the
\* premium the rating engine returned is stored in the session, so the
\* session in stage quoted holds the quoted premium in one of its fields
\* (the fields that hold text or a boolean are left out of the comparison).
C17_PremiumStored ==
    ( /\ LastTurnAt("quote_route")
      /\ Len(last[1].tariff) = 1
      /\ LastTariffCall.decision = Some("AUTO_OK")
      /\ LastSession.stage = "quoted" ) =>
        \E k \in DOMAIN LastSession.data \ {"cargo_desc", "cargo_class_id", "condition",
                                            "is_reefer", "route_zone"} :
            LastSession.data[k] = LastTariffCall.premium_rub

\* C18: when the rating call of a quote_route turn fails (engine URL unset,
\* transport error, or response status >= 400) the turn ends as an HTTP
\* failure and the session is still in quote_route, not in quoted or refer.
C18_FailedRatingKeepsStage ==
    ( /\ LastTurnAt("quote_route")
      /\ Len(last[1].tariff) = 1
      /\ LastTariffCall.outcome \in {"url_unset", "unreachable", "status_error"} ) =>
        /\ last[1].http \in {500, 502}
        /\ LastTariffCall.outcome = "url_unset" <=> last[1].http = 500
        /\ LastSession.stage = "quote_route"

\* the rating engine has answered with a status >= 400: the turn failed with
\* 502 and the session waits in quote_route
C18_Witness ==
    /\ LastTurnAt("quote_route")
    /\ Len(last[1].tariff) = 1
    /\ LastTariffCall.outcome = "status_error"
    /\ last[1].http = 502
    /\ LastSession.stage = "quote_route"

\* C21: a turn that finds an entry whose deadline has passed (now strictly
\* greater than expires_at) is handled on a fresh session: at stage welcome,
\* and it leaves intent, every collected field and the proposal unset and the
\* retry counter 0, whatever the expired entry held; a turn that finds an entry
\* at or before its deadline is handled at the stage of that entry, keeps what
\* the stage does not write, and in both cases expires_at becomes now + TTL.
C21_ExpiredEntryStartsFresh ==
    [][ ChatStep =>
          LET old == sessions[last'[1].sid]
          IN /\ (old # None /\ now > old[1].expires_at) =>
                   /\ last'[1].stage = "welcome"
                   /\ TurnAfter.stage = "intent_select"
                   /\ TurnAfter.intent = None
                   /\ \A k \in DOMAIN TurnAfter.data : TurnAfter.data[k] = None
                   /\ TurnAfter.pending = [cargo_proposed |-> None, cargo_retry_count |-> 0]
                   /\ TurnAfter.expires_at = now + SESSION_TTL_SEC
             /\ (old # None /\ now <= old[1].expires_at) =>
                   /\ last'[1].stage = old[1].stage
                   /\ last'[1].stage \notin {"intent_select", "consult"} =>
                          TurnAfter.intent = old[1].intent
                   /\ last'[1].stage # "quote_sum" =>
                          TurnAfter.data.sum_insured_rub = old[1].data.sum_insured_rub
                   /\ TurnAfter.expires_at = now + SESSION_TTL_SEC ]_vars

\* a turn has found an expired entry and has been handled as the first turn
\* of a new session
C21_Witness ==
    /\ LastTurnAt("welcome")
    /\ last[1].found = "expired"
    /\ now > 1
    /\ LastSession.stage = "intent_select"
    /\ LastSession.data.sum_insured_rub = None
    /\ LastSession.expires_at = now + SESSION_TTL_SEC

\* C22: with a classifier that returns error on every invocation the turn at
\* quote_cargo ends in cargo_retry, the retry turns 1..CARGO_RETRY_MAX stay in
\* cargo_retry and retry turn CARGO_RETRY_MAX + 1 ends in cargo_choose; and for
\* any classifier behaviour the retry counter, which counts the consecutive
\* turns handled at cargo_retry, never exceeds CARGO_RETRY_MAX + 1.
C22_RetryBounded ==
    /\ [](\A sid \in SessionIds :
            sessions[sid] # None =>
               sessions[sid][1].pending.cargo_retry_count <= CARGO_RETRY_MAX + 1)
    /\ [][ (ChatStep /\ Len(last'[1].llm) = 1 /\ last'[1].llm[1].status = "error") =>
             /\ last'[1].stage = "quote_cargo" => TurnAfter.stage = "cargo_retry"
             /\ last'[1].stage = "cargo_retry" =>
                    TurnAfter.stage = (IF TurnAfter.pending.cargo_retry_count <= CARGO_RETRY_MAX
                                       THEN "cargo_retry" ELSE "cargo_choose") ]_vars

\* C24: no stage of the buy path is skipped: whenever a turn brings a session
\* into quoted or refer, turns have been handled, since the session last
\* entered quote_sum, at quote_sum, quote_cargo, cargo_confirm or
\* cargo_choose, quote_condition, quote_franchise, quote_reefer and
\* quote_route, in that order (this turn included).
C24_NoStageSkipped ==
    [][ ( /\ ChatStep
          /\ TurnAfter.stage \in {"quoted", "refer"}
          /\ TurnBefore.stage # TurnAfter.stage ) =>
            last'[1].progress = Len(BuyPath) ]_vars

\* a session has been quoted after the classifier failed, the user waited
\* through a retry and picked the class from the menu
C24_Witness ==
    /\ LastTurnAt("quote_route")
    /\ LastSession.stage = "quoted"
    /\ last[1].progress = Len(BuyPath)
    /\ LastSession.pending.cargo_retry_count > 0
    /\ LastSession.data.cargo_class_id = Some("CARGO003")

\* C28: under sequential turns a session at stage quote_route has its sum,
\* cargo class, condition, franchise and reefer flag set, so a quote_route turn
\* never takes the missing-field branch back to quote_sum; and every rating
\* call carries, in each field, the value a turn collected since the session
\* last entered quote_sum.
C28_QuoteRouteComplete ==
    /\ [](\A sid \in SessionIds :
            (sessions[sid] # None /\ sessions[sid][1].stage = "quote_route") =>
               \A k \in {"sum_insured_rub", "cargo_class_id", "condition", "franchise_rub",
                          "is_reefer"} : sessions[sid][1].data[k] # None)
    /\ [][ (ChatStep /\ last'[1].stage = "quote_route") =>
             /\ TurnAfter.stage # "quote_sum"
             /\ \A i \in 1..Len(last'[1].tariff) :
                    LET payload == last'[1].tariff[i].payload
                    IN /\ \A k \in DOMAIN payload \ {"route_zone"} :
                              last'[1].collected[k] = Some(payload[k])
                       /\ TurnAfter.data.route_zone = Some(payload.route_zone) ]_vars

\* a rating call has been made after the classifier failed once: the payload
\* holds the values the turns since quote_sum collected
C28_Witness ==
    /\ LastTurnAt("quote_route")
    /\ Len(last[1].tariff) = 1
    /\ \A k \in DOMAIN LastTariffCall.payload :
           last[1].collected[k] = Some(LastTariffCall.payload[k])
    /\ LastSession.stage = "refer"
    /\ LastSession.pending.cargo_retry_count = 1

(***************************************************************************)
(* Claims about single turns and their input (checked under SpecInputs)    *)
(***************************************************************************)
\* C12: at cargo_confirm an affirmative answer commits the proposed id, clears
\* the proposal and moves to quote_condition; a negative answer clears the
\* proposal, cargo_class_id and cargo_desc and moves to quote_cargo; any other
\* text leaves the stage, the proposal and the collected fields unchanged.
C12_CargoConfirmTurn ==
    [][ (ChatStep /\ last'[1].stage = "cargo_confirm") =>
          LET yn == parse_yes_no(last'[1].text)
          IN /\ yn = Some(TRUE) =>
                   /\ TurnAfter.data = [TurnBefore.data EXCEPT !.cargo_class_id =
                                            Some(TurnBefore.pending.cargo_proposed[1].id)]
                   /\ TurnAfter.pending.cargo_proposed = None
                   /\ TurnAfter.stage = "quote_condition"
             /\ yn = Some(FALSE) =>
                   /\ TurnAfter.pending.cargo_proposed = None
                   /\ TurnAfter.data = [TurnBefore.data EXCEPT !.cargo_class_id = None,
                                                               !.cargo_desc = None]
                   /\ TurnAfter.stage = "quote_cargo"
             /\ yn = None =>
                   /\ TurnAfter.stage = "cargo_confirm"
                   /\ TurnAfter.pending = TurnBefore.pending
                   /\ TurnAfter.data = TurnBefore.data ]_vars

\* the user has rejected the proposal with "net" and is asked for the cargo again
C12_Witness ==
    /\ LastTurnAt("cargo_confirm")
    /\ last[1].text = <<"ru:ne", "ru:t">>
    /\ LastSession.stage = "quote_cargo"
    /\ LastSession.data.cargo_desc = None
    /\ LastSession.pending.cargo_proposed = None

\* C14 as stated: from a session that does not exist yet, with a classifier
\* answering ok/CARGO003 and a rating engine answering AUTO_OK, the session
\* is in stage quoted after exactly the eight turns of scenario 1.
C14_Scenario1FromNoSession ==
    (LastTurnAt(last[1].stage) /\ last[1].played = Some(Len(Scenario1))) =>
        LastSession.stage = "quoted"

\* C14 (amended): the first turn of a session that does not exist yet is
\* answered with the greeting whatever its text; with the same classifier
\* and rating engine, the session is in stage quoted after exactly the eight
\* turns of scenario 1 that follow the greeting turn.
C14_Scenario1AfterGreeting ==
    (LastTurnAt(last[1].stage) /\ last[1].played_greeted = Some(Len(Scenario1))) =>
        /\ LastSession.stage = "quoted"
        /\ last[1].stage = "quote_route"
        /\ LastSession.data = [ sum_insured_rub |-> Some(5000000),
                                cargo_desc |-> Some(<<"ru:televizory">>),
                                cargo_class_id |-> Some("CARGO003"),
                                condition |-> Some("NEW"),
                                franchise_rub |-> Some(20000),
                                is_reefer |-> Some(FALSE),
                                route_zone |-> Some("RF") ]

\* the eight turns of scenario 1 have been played after the greeting turn
C14_Witness ==
    /\ LastTurnAt("quote_route")
    /\ last[1].played_greeted = Some(Len(Scenario1))
    /\ last[1].text = <<"ru:RF">>
    /\ LastSession.stage = "quoted"

\* the typed text is an ordinal of one or two digits
IsOrdinalText(text) == Len(text) \in {1, 2} /\ \A i \in 1..Len(text) : text[i] \in Digits

\* the typed text is a code of the whitelist, in either case
IsCodeText(text) == Len(text) = 1 /\ Upper(text[1]) \in Elems(CARGO_ORDER)

C19_FieldDomains ==
    \A sid \in SessionIds :
        sessions[sid] # None =>
            LET data == sessions[sid][1].data
            IN /\ data.sum_insured_rub # None =>
                     (data.sum_insured_rub[1] \in Int /\ data.sum_insured_rub[1] > 0)
               /\ data.cargo_class_id # None => data.cargo_class_id[1] \in Elems(CARGO_ORDER)
               /\ data.condition # None => data.condition[1] \in {"NEW", "USED"}
               /\ data.franchise_rub # None => data.franchise_rub[1] \in {20000, 50000}
               /\ data.is_reefer # None => data.is_reefer[1] \in BOOLEAN
               /\ data.route_zone # None => data.route_zone[1] \in {"RF", "SNG-RF", "VES MIR-RF"}

\* the value the extractor of a field stage accepts in the text, None when
\* the stage rejects the text
Extracted(stage, text) ==
    CASE stage = "quote_sum" -> parse_sum_rub(text)
      [] stage = "quote_condition" -> parse_condition(text)
      [] stage = "quote_franchise" ->
            LET fr == parse_franchise(text)
            IN IF fr # None /\ fr[1] \in {20000, 50000} THEN fr ELSE None
      [] stage = "quote_reefer" -> parse_reefer(text)
      [] stage = "quote_route" ->
            LET rz == parse_route_zone(text)
            IN IF rz # None /\ rz[1] \in {"RF", "SNG-RF", "VES MIR-RF"} THEN rz ELSE None

\* the stage that follows each field stage
FieldStageTargets ==
    [ quote_sum |-> {"quote_cargo"}, quote_condition |-> {"quote_franchise"},
      quote_franchise |-> {"quote_reefer"}, quote_reefer |-> {"quote_route"},
      quote_route |-> {"quoted", "refer"} ]

\* C23: at each of the field stages quote_sum, quote_condition,
\* quote_franchise, quote_reefer and quote_route, a turn whose text the
\* stage's extractor rejects leaves the stage, every collected field, the
\* proposal and the retry counter unchanged; a turn whose text is accepted
\* stores the extracted value in the stage's own field, changes no other
\* collected field, nor the proposal or the counter, and moves the stage to
\* quote_cargo, quote_franchise, quote_reefer, quote_route and quoted or refer
\* respectively (a quote_route turn whose rating call fails ends as an HTTP
\* failure and changes the field only).
C23_FieldStageFrame ==
    [][ (ChatStep /\ last'[1].stage \in DOMAIN FieldStageTargets) =>
          LET stage == last'[1].stage
              val == Extracted(stage, last'[1].text)
          IN /\ TurnBefore.stage = stage
             /\ TurnAfter.pending = TurnBefore.pending
             /\ TurnAfter.intent = TurnBefore.intent
             /\ IF val = None
                THEN /\ TurnAfter.stage = stage
                     /\ TurnAfter.data = TurnBefore.data
                     /\ last'[1].http = 200
                ELSE /\ TurnAfter.data = [TurnBefore.data EXCEPT ![FieldOf[stage]] = val]
                     /\ IF last'[1].http = 200
                        THEN TurnAfter.stage \in FieldStageTargets[stage]
                        ELSE stage = "quote_route" /\ TurnAfter.stage = stage ]_vars

\* the franchise stage has accepted 20000: the sum, the class and the
\* condition collected before are still there and the stage is quote_reefer
C23_Witness ==
    /\ LastTurnAt("quote_franchise")
    /\ Extracted("quote_franchise", last[1].text) = Some(20000)
    /\ LastSession.stage = "quote_reefer"
    /\ LastSession.data.franchise_rub = Some(20000)
    /\ LastSession.data.sum_insured_rub = Some(5000000)
    /\ LastSession.data.cargo_class_id = Some("CARGO003")
    /\ LastSession.data.condition = Some("NEW")
    /\ LastSession.data.is_reefer = None

(***************************************************************************)
(* Claims about one turn on a stored session (checked under SpecStored)    *)
(***************************************************************************)
\* no branch of chat handles the session: its stage is none of the fourteen
\* the branches test, or it is cargo_confirm and no proposal is stored
Unhandled(s) ==
    \/ s.stage \notin {"welcome", "intent_select", "consult", "cargo_confirm", "cargo_retry",
                        "cargo_choose", "quote_sum", "quote_cargo", "quote_condition",
                        "quote_franchise", "quote_reefer", "quote_route", "quoted", "refer"}
    \/ s.stage = "cargo_confirm" /\ s.pending.cargo_proposed = None

\* C25: a turn that finds the session at a stage no branch handles, which is
\* the case at next_phase, at handoff and at cargo_confirm with no proposal
\* stored, completes and resets the stage to intent_select, whatever the text,
\* and leaves the intent, the collected fields, the proposal and the retry
\* counter as they were.
C25_UnhandledStageResets ==
    /\ \A s \in StoredSessions :
          Unhandled(s) <=> \/ s.stage \in {"next_phase", "handoff"}
                           \/ s.stage = "cargo_confirm" /\ s.pending.cargo_proposed = None
    /\ (last # None /\ Unhandled(last[1].before)) =>
          /\ last[1].http = 200
          /\ sessions[last[1].sid] # None
          /\ LastSession.stage = "intent_select"
          /\ LastSession.intent = last[1].before.intent
          /\ LastSession.data = last[1].before.data
          /\ LastSession.pending = last[1].before.pending

\* a turn has found the session at cargo_confirm with no proposal stored and
\* has sent it back to intent_select with the collected fields retained
C25_Witness ==
    /\ last # None
    /\ last[1].before.stage = "cargo_confirm"
    /\ last[1].before.pending.cargo_proposed = None
    /\ LastSession.stage = "intent_select"
    /\ LastSession.data.sum_insured_rub = Some(5000000)
    /\ LastSession.data.cargo_class_id = Some("CARGO003")

(***************************************************************************)
(* Claims about overlapping turns (checked under SpecOverlap)              *)
(***************************************************************************)
\* the sessions that running the turn a and then the turn b on s0 can leave
SerialRuns(s0, a, b) ==
    UNION { { Turn(_get_session([sid \in SessionIds |-> Some(m)], a.sid, now),
                   b.text, x2, tariff_url, t2).s :
                x2 \in LLMFor(m), t2 \in TariffFor(m) } :
            m \in { Turn(s0, a.text, x1, tariff_url, t1).s :
                      x1 \in LLMFor(s0), t1 \in TariffFor(s0) } }

\* a turn handled alone leaves the session that Turn computes
OverlapAgreesWithTurn ==
    ( /\ inflight.reqs[1].pc = "done"
      /\ \A k \in Threads : k # 1 => inflight.reqs[k].pc = "idle" ) =>
        LET r == inflight.reqs[1]
        IN sessions[r.sid] =
               Some(Turn(inflight.base[1], r.text, r.result, tariff_url, r.t).s)

\* C20: when two turns for the same session id overlap, the session they
\* leave is one that running the two turns one after the other, in one of
\* the two orders, can leave, and the proposal is set if and only if the
\* stage is cargo_confirm.
C20_OverlapSerializable ==
    ( /\ inflight.reqs[1].pc = "done"
      /\ inflight.reqs[2].pc = "done"
      /\ \A k \in Threads : inflight.reqs[k].pc # "waiting" ) =>
        LET a == inflight.reqs[1]
            b == inflight.reqs[2]
            s == sessions[a.sid][1]
        IN /\ s \in SerialRuns(inflight.base[1], a, b) \cup SerialRuns(inflight.base[1], b, a)
           /\ s.pending.cargo_proposed # None <=> s.stage = "cargo_confirm"

====
